---- MODULE Spec2Model ----
(***************************************************************************)
(* A model of the ATS scoring engine of IntegrityAI                        *)
(* (src/src/lib/ats-engine.ts).                                            *)
(*                                                                         *)
(* Strings are sequences of one-character strings, so that toLowerCase,    *)
(* trim, includes, the word-boundary regular expression and the edit       *)
(* distance are computed character by character as the code computes them. *)
(* JavaScript numbers are exact fractions [n, d] with d > 0, and NaN is    *)
(* the fraction 0/0 (the only non-finite value the engine can produce).    *)
(***************************************************************************)
EXTENDS Integers, Sequences, FiniteSets, TLC

VARIABLES
    resume,              \* ResumeData argument of calculateATSScore
    jobDescription,      \* JobDescriptionData argument of calculateATSScore
    skillsAnalysis,      \* local of calculateATSScore
    experienceAnalysis,  \* local of calculateATSScore
    keywordAnalysis,     \* local of calculateATSScore
    formattingAnalysis,  \* local of calculateATSScore
    result,              \* ATSScoreResult returned by calculateATSScore
    skill1,              \* first argument of skillsMatch
    skill2,              \* second argument of skillsMatch
    matchResult,         \* value returned by skillsMatch
    pc,                  \* "start" before the call, "done" after it returned,
                         \* "threw" after an error left it, "analyzed" after
                         \* analyzeResumeWithAI resolved
    error,               \* the error thrown by the call, "none" without one
    aiAnalysis,          \* AIAnalysisResult of analyzeResumeWithAI
    other,               \* a second analysis in progress: its arguments,
                         \* results and position
    WEIGHTS,             \* module-level object of ats-engine.ts
    sentiment,           \* module-level SentimentAnalyzer of ai-analysis.ts
    tokenizer,           \* module-level WordTokenizer of ai-analysis.ts
    fileType,            \* fileType argument of parseResume
    buffer,              \* buffer argument of parseResume: the uploaded file
    decoded,             \* the decoders parseResume has invoked, in order
    parsed,              \* ParsedResume returned by parseResume
    user,                \* the row of the user in the database
    atsScores,           \* the ATS scores stored for the user
    requests,            \* the POST /api/ats/analyze requests of the user in
                         \* progress: position and locals of each
    now,                 \* the time of the server's clock, in seconds
    refreshTokens,       \* the rows of the refreshToken table
    revoked,             \* the tokens revokeRefreshToken has been called with
    session,             \* the login, refresh and logout calls in progress
    profile              \* the GET /api/user/me request in progress

callVars == <<resume, jobDescription, skillsAnalysis, experienceAnalysis,
              keywordAnalysis, formattingAnalysis, result,
              skill1, skill2, matchResult, pc, error, aiAnalysis>>

moduleVars == <<WEIGHTS, sentiment, tokenizer>>

parserVars == <<fileType, buffer, decoded, parsed>>

routeVars == <<user, atsScores, requests>>

authVars == <<refreshTokens, revoked, session>>

vars == <<callVars, other, moduleVars, parserVars, routeVars, now, authVars,
          profile>>

(***************************************************************************)
(* Strings                                                                 *)
(***************************************************************************)
LowerLetters ==
    <<"a","b","c","d","e","f","g","h","i","j","k","l","m",
      "n","o","p","q","r","s","t","u","v","w","x","y","z">>

UpperLetters ==
    <<"A","B","C","D","E","F","G","H","I","J","K","L","M",
      "N","O","P","Q","R","S","T","U","V","W","X","Y","Z">>

Digits == {"0","1","2","3","4","5","6","7","8","9"}

Whitespace == {" ", "\t", "\n"}

Range(f) == {f[i] : i \in DOMAIN f}

IsLetter(c) == c \in Range(LowerLetters) \cup Range(UpperLetters)

LowerTable ==
    [c \in Range(UpperLetters) |->
        LowerLetters[CHOOSE i \in DOMAIN UpperLetters : UpperLetters[i] = c]]

\* String.prototype.toLowerCase on one character
LowerChar(c) == IF c \in DOMAIN LowerTable THEN LowerTable[c] ELSE c

toLowerCase(s) == [i \in 1..Len(s) |-> LowerChar(s[i])]

RECURSIVE trimStart(_)
trimStart(s) ==
    IF s # <<>> /\ Head(s) \in Whitespace THEN trimStart(Tail(s)) ELSE s

RECURSIVE trimEnd(_)
trimEnd(s) ==
    IF s # <<>> /\ s[Len(s)] \in Whitespace
    THEN trimEnd(SubSeq(s, 1, Len(s) - 1))
    ELSE s

\* String.prototype.trim
trim(s) == trimEnd(trimStart(s))

\* String.prototype.includes: t occurs in s as a contiguous substring
\* (the empty string occurs in every string)
includes(s, t) ==
    \E text \in {s}, part \in {t} :
        \E i \in 0..(Len(text) - Len(part)) :
            \A k \in 1..Len(part) : text[i + k] = part[k]

\* Array.prototype.includes
arrayIncludes(arr, x) == \E i \in DOMAIN arr : arr[i] = x

\* Array.prototype.slice(0, n)
slice0(arr, n) == SubSeq(arr, 1, IF Len(arr) < n THEN Len(arr) ELSE n)

\* the element of a one-element set: Only({F(x) : x \in {e}}) is F(e) with e
\* evaluated once, as a const declaration evaluates its initializer once
Only(S) == CHOOSE x \in S : TRUE

(***************************************************************************)
(* Numbers                                                                 *)
(***************************************************************************)
RECURSIVE GCD(_, _)
GCD(a, b) == IF b = 0 THEN a ELSE GCD(b, a % b)

Abs(x) == IF x < 0 THEN -x ELSE x

NaN == [n |-> 0, d |-> 0]

IsNaN(x) == x.d = 0

\* the fraction a/b in lowest terms; 0/0 is NaN
Frac(a, b) ==
    IF b = 0 THEN NaN
    ELSE LET g == GCD(Abs(a), Abs(b))
             sgn == IF b < 0 THEN -1 ELSE 1
         IN  [n |-> sgn * (a \div g), d |-> sgn * (b \div g)]

Num(k) == [n |-> k, d |-> 1]

Plus(x, y) ==
    IF IsNaN(x) \/ IsNaN(y) THEN NaN
    ELSE Frac(x.n * y.d + y.n * x.d, x.d * y.d)

Times(x, y) ==
    IF IsNaN(x) \/ IsNaN(y) THEN NaN ELSE Frac(x.n * y.n, x.d * y.d)

\* x / y for y 0 only when x is 0 (0/0 is NaN)
Over(x, y) ==
    IF IsNaN(x) \/ IsNaN(y) THEN NaN ELSE Frac(x.n * y.d, x.d * y.n)

\* comparisons are false as soon as one side is NaN
Less(x, y) == ~IsNaN(x) /\ ~IsNaN(y) /\ x.n * y.d < y.n * x.d

GreaterEq(x, y) == ~IsNaN(x) /\ ~IsNaN(y) /\ x.n * y.d >= y.n * x.d

\* Math.min and Math.max return NaN when an argument is NaN
MathMin(x, y) ==
    IF IsNaN(x) \/ IsNaN(y) THEN NaN ELSE IF Less(y, x) THEN y ELSE x

MathMax(x, y) ==
    IF IsNaN(x) \/ IsNaN(y) THEN NaN ELSE IF Less(x, y) THEN y ELSE x

\* Math.round: the nearest integer, halves rounded towards +infinity
MathRound(x) ==
    IF IsNaN(x) THEN NaN ELSE Num((2 * x.n + x.d) \div (2 * x.d))

InRange0to100(x) == GreaterEq(x, Num(0)) /\ GreaterEq(Num(100), x)

(***************************************************************************)
(* Skill normalizer and matcher                                            *)
(***************************************************************************)
\* the characters /[^a-z0-9\s+#.]/gi leaves in place
IsSkillChar(c) ==
    IsLetter(c) \/ c \in Digits \/ c \in Whitespace \/ c \in {"+", "#", "."}

normalizeSkill(skill) ==
    SelectSeq(trim(toLowerCase(skill)), IsSkillChar)

normalizeSkills(skills) ==
    [i \in 1..Len(skills) |-> normalizeSkill(skills[i])]

Min2(a, b) == IF a < b THEN a ELSE b

Max2(a, b) == IF a < b THEN b ELSE a

\* one row of the edit-distance table: prev is the row of the source prefix
\* one character shorter, ch the source character of this row, acc the cells
\* of this row filled so far (cell j is at index j + 1)
RECURSIVE LevenshteinRow(_, _, _, _)
LevenshteinRow(prev, ch, target, acc) ==
    LET j == Len(acc)
    IN  IF j > Len(target) THEN acc
        ELSE LET cost == IF target[j] = ch THEN 0 ELSE 1
                 cell == Min2(Min2(prev[j + 1] + 1, acc[j] + 1), prev[j] + cost)
             IN  LevenshteinRow(prev, ch, target, Append(acc, cell))

RECURSIVE LevenshteinRows(_, _, _, _)
LevenshteinRows(prev, source, target, i) ==
    IF i > Len(source) THEN prev[Len(target) + 1]
    ELSE LevenshteinRows(LevenshteinRow(prev, source[i], target, <<i>>),
                         source, target, i + 1)

\* natural.LevenshteinDistance with its default costs (insertion 1,
\* deletion 1, substitution 1)
LevenshteinDistance(source, target) ==
    LevenshteinRows([j \in 1..(Len(target) + 1) |-> j - 1], source, target, 1)

\* the value lists of the variations table (its keys are never read)
variations == <<
    << <<"j","s">>, <<"j","a","v","a","s","c","r","i","p","t">>,
       <<"e","c","m","a","s","c","r","i","p","t">> >>,
    << <<"t","s">>, <<"t","y","p","e","s","c","r","i","p","t">> >>,
    << <<"p","y">>, <<"p","y","t","h","o","n">> >>,
    << <<"r","e","a","c","t","j","s">>, <<"r","e","a","c","t",".","j","s">>,
       <<"r","e","a","c","t">> >>,
    << <<"n","o","d","e","j","s">>, <<"n","o","d","e",".","j","s">>,
       <<"n","o","d","e">> >>,
    << <<"m","o","n","g","o">>, <<"m","o","n","g","o","d","b">> >>,
    << <<"p","o","s","t","g","r","e","s">>,
       <<"p","o","s","t","g","r","e","s","q","l">>, <<"p","s","q","l">> >>,
    << <<"a","m","a","z","o","n"," ","w","e","b"," ",
         "s","e","r","v","i","c","e","s">>, <<"a","w","s">> >>,
    << <<"g","o","o","g","l","e"," ","c","l","o","u","d"," ",
         "p","l","a","t","f","o","r","m">>, <<"g","c","p">>,
       <<"g","o","o","g","l","e"," ","c","l","o","u","d">> >>,
    << <<"c","i","c","d">>, <<"c","i","/","c","d">>,
       <<"c","o","n","t","i","n","u","o","u","s"," ",
         "i","n","t","e","g","r","a","t","i","o","n">> >>
    >>

\* the four rules of skillsMatch, on the lower-cased and trimmed strings
ExactRule(s1, s2) == s1 = s2

\* a contains rule that looks for the second skill in the first only
ContainsRule_OneWay(s1, s2) == includes(s1, s2)

ContainsRule(s1, s2) == includes(s1, s2) \/ includes(s2, s1)

VariationRule(s1, s2) ==
    \E k \in DOMAIN variations :
        arrayIncludes(variations[k], s1) /\ arrayIncludes(variations[k], s2)

SimilarityRule(s1, s2) ==
    LET distance == LevenshteinDistance(s1, s2)
        maxLength == Max2(Len(s1), Len(s2))
        similarity == Plus(Num(1), Frac(-distance, maxLength))
    IN  Less(Frac(85, 100), similarity)

\* a matcher that trims but does not lower-case its arguments
skillsMatch_CaseSensitive(a, b) ==
    \E s1 \in {trim(a)}, s2 \in {trim(b)} :
        IF ExactRule(s1, s2) THEN TRUE
        ELSE IF ContainsRule(s1, s2) THEN TRUE
        ELSE IF VariationRule(s1, s2) THEN TRUE
        ELSE SimilarityRule(s1, s2)

skillsMatch(a, b) ==
    \E s1 \in {trim(toLowerCase(a))}, s2 \in {trim(toLowerCase(b))} :
        IF ExactRule(s1, s2) THEN TRUE
        ELSE IF ContainsRule(s1, s2) THEN TRUE
        ELSE IF VariationRule(s1, s2) THEN TRUE
        ELSE SimilarityRule(s1, s2)

(***************************************************************************)
(* calculateSkillsScore                                                    *)
(***************************************************************************)
\* resumeSkills.some(resumeSkill => skillsMatch(resumeSkill, jobSkill))
someSkillMatches(resumeSkills, jobSkill) ==
    \E i \in DOMAIN resumeSkills : skillsMatch(resumeSkills[i], jobSkill)

\* a loop over preferredSkills that pushes every matched preferred skill,
\* also one that is in matched already
RECURSIVE preferredLoop_PushAlways(_, _, _, _)
preferredLoop_PushAlways(resumeSkills, preferredSkills, i, st) ==
    IF i > Len(preferredSkills) THEN st
    ELSE LET prefSkill == preferredSkills[i]
         IN  IF someSkillMatches(resumeSkills, prefSkill)
             THEN preferredLoop_PushAlways(resumeSkills, preferredSkills, i + 1,
                    [matched |-> Append(st.matched, prefSkill),
                     preferredMatched |-> st.preferredMatched + 1])
             ELSE preferredLoop_PushAlways(resumeSkills, preferredSkills,
                                           i + 1, st)

\* the loop over preferredSkills: st is [matched, preferredMatched]
RECURSIVE preferredLoop(_, _, _, _)
preferredLoop(resumeSkills, preferredSkills, i, st) ==
    IF i > Len(preferredSkills) THEN st
    ELSE LET prefSkill == preferredSkills[i]
         IN  IF someSkillMatches(resumeSkills, prefSkill)
             THEN preferredLoop(resumeSkills, preferredSkills, i + 1,
                    [matched |-> IF ~arrayIncludes(st.matched, prefSkill)
                                 THEN Append(st.matched, prefSkill)
                                 ELSE st.matched,
                     preferredMatched |-> st.preferredMatched + 1])
             ELSE preferredLoop(resumeSkills, preferredSkills, i + 1, st)

\* a score whose required ratio counts every entry of matched, the matched
\* preferred skills included
skillsResult_UnfilteredRatio(requiredSkills, preferredSkills, matched, missing, preferredMatched) ==
    LET requiredMatchRatio ==
            IF Len(requiredSkills) > 0
            THEN Frac(Len(matched), Len(requiredSkills))
            ELSE Num(0)
        preferredBonus ==
            IF Len(preferredSkills) > 0
            THEN Times(Frac(preferredMatched, Len(preferredSkills)), Num(20))
            ELSE Num(0)
        score == MathMin(Num(100),
                         Plus(Times(requiredMatchRatio, Num(80)), preferredBonus))
    IN  [score |-> score, matched |-> matched, missing |-> missing]

\* the end of calculateSkillsScore: the score from the lists the loops built
skillsResult(requiredSkills, preferredSkills, matched, missing, preferredMatched) ==
    LET IsRequired(x) == arrayIncludes(requiredSkills, x)
        requiredMatchRatio ==
            IF Len(requiredSkills) > 0
            THEN Frac(Len(SelectSeq(matched, IsRequired)), Len(requiredSkills))
            ELSE Num(0)
        preferredBonus ==
            IF Len(preferredSkills) > 0
            THEN Times(Frac(preferredMatched, Len(preferredSkills)), Num(20))
            ELSE Num(0)
        score == MathMin(Num(100),
                         Plus(Times(requiredMatchRatio, Num(80)), preferredBonus))
    IN  [score |-> score, matched |-> matched, missing |-> missing]

\* the body of calculateSkillsScore, on the normalized skill lists
skillsScoreOf(resumeSkills, requiredSkills, preferredSkills) ==
    LET IsMatched(jobSkill) == someSkillMatches(resumeSkills, jobSkill)
        IsMissing(jobSkill) == ~someSkillMatches(resumeSkills, jobSkill)
        AfterPreferred(afterRequired) ==
            preferredLoop(resumeSkills, preferredSkills, 1,
                [matched |-> afterRequired, preferredMatched |-> 0])
    IN  Only({skillsResult(requiredSkills, preferredSkills, st.matched,
                           missing, st.preferredMatched) :
                st \in {AfterPreferred(SelectSeq(requiredSkills, IsMatched))},
                missing \in {SelectSeq(requiredSkills, IsMissing)}})

calculateSkillsScore(res, job) ==
    Only({skillsScoreOf(resumeSkills, requiredSkills, preferredSkills) :
            resumeSkills \in {normalizeSkills(res.skills)},
            requiredSkills \in {normalizeSkills(job.requiredSkills)},
            preferredSkills \in {normalizeSkills(job.preferredSkills)}})

(***************************************************************************)
(* calculateKeywordScore                                                   *)
(***************************************************************************)
\* \w of the regular expression
IsWordChar(c) == IsLetter(c) \/ c \in Digits \/ c = "_"

\* \b holds at offset p of text (between text[p] and text[p + 1])
AtWordBoundary(text, p) ==
    LET before == p >= 1 /\ IsWordChar(text[p])
        after == p < Len(text) /\ IsWordChar(text[p + 1])
    IN  before # after

\* the characters of a keyword that are quantifiers of a regular expression
Quantifiers == {"+", "*", "?"}

\* the scan of the pattern \b${keyword}\b by the RegExp constructor: seen is
\* "assertion" after \b, "atom" after a character or a dot, "quantified"
\* after an atom and its quantifier, "lazy" after the ? that may follow a
\* quantifier; a quantifier with nothing to repeat is a SyntaxError
RECURSIVE patternCompiles(_, _, _)
patternCompiles(keyword, i, seen) ==
    IF i > Len(keyword) THEN TRUE
    ELSE IF keyword[i] \notin Quantifiers
         THEN patternCompiles(keyword, i + 1, "atom")
    ELSE IF seen = "atom"
         THEN patternCompiles(keyword, i + 1, "quantified")
    ELSE IF seen = "quantified" /\ keyword[i] = "?"
         THEN patternCompiles(keyword, i + 1, "lazy")
    ELSE FALSE

\* new RegExp(`\\b${keyword}\\b`, 'gi') throws a SyntaxError
RegExpThrows(keyword) == ~patternCompiles(keyword, 1, "assertion")

\* one character of the pattern matches the character c of the text: a dot
\* matches every character but a line terminator, any other character
\* matches itself
PatternCharMatches(patternChar, c) ==
    IF patternChar = "." THEN c # "\n" ELSE c = patternChar

\* the regular expression \bkeyword\b matches text at offset p, for a
\* keyword made of literal characters and dots
MatchesAt(text, keyword, p) ==
    /\ p + Len(keyword) <= Len(text)
    /\ AtWordBoundary(text, p)
    /\ \A k \in 1..Len(keyword) : PatternCharMatches(keyword[k], text[p + k])
    /\ AtWordBoundary(text, p + Len(keyword))

\* the offsets at which the regular expression matches, in ascending order
matchOffsets(text, keyword) ==
    LET Matches(p) == MatchesAt(text, keyword, p)
    IN  SelectSeq([i \in 1..(Len(text) + 1) |-> i - 1], Matches)

\* the scan of a global regular expression: it takes the first match at or
\* after offset from, and restarts behind it (one further on after an empty
\* match)
RECURSIVE scanMatches(_, _, _, _)
scanMatches(offsets, width, i, from) ==
    IF i > Len(offsets) THEN 0
    ELSE IF offsets[i] < from THEN scanMatches(offsets, width, i + 1, from)
    ELSE 1 + scanMatches(offsets, width, i + 1,
                         offsets[i] + (IF width = 0 THEN 1 ELSE width))

\* the number of matches text.match(/\bkeyword\b/gi) returns (0 for null);
\* matches that do not overlap are all taken
CountMatches(text, keyword) ==
    LET offsets == matchOffsets(text, keyword)
        width == Len(keyword)
    IN  IF \A i \in 1..(Len(offsets) - 1) : offsets[i + 1] - offsets[i] >= width
        THEN Len(offsets)
        ELSE scanMatches(offsets, width, 1, 0)

matchCountOf(resumeText, keyword) ==
    CountMatches(resumeText, toLowerCase(keyword))

\* a density credit without its cap
densityCredit_Uncapped(occurrences) == occurrences * 5

\* Math.min(matches.length * 5, 15)
densityCredit(occurrences) == Min2(occurrences * 5, 15)

\* the loop over keywords: the sum of the density credits of the keywords
\* that occur
RECURSIVE densityLoop(_, _, _, _)
densityLoop(resumeText, keywords, i, densityScore) ==
    IF i > Len(keywords) THEN densityScore
    ELSE LET occurrences == matchCountOf(resumeText, keywords[i])
         IN  densityLoop(resumeText, keywords, i + 1,
                 IF occurrences > 0
                 THEN densityScore + densityCredit(occurrences)
                 ELSE densityScore)

\* the body of calculateKeywordScore, on the lower-cased text and keywords
keywordScoreOf(resumeText, keywords) ==
    LET Occurs(keyword) == matchCountOf(resumeText, keyword) > 0
        Absent(keyword) == ~(matchCountOf(resumeText, keyword) > 0)
        matched == SelectSeq(keywords, Occurs)
        missing == SelectSeq(keywords, Absent)
        densityScore == densityLoop(resumeText, keywords, 1, 0)
        matchRatio ==
            IF Len(keywords) > 0
            THEN Frac(Len(matched), Len(keywords))
            ELSE Num(0)
        score == MathMin(Num(100),
                   Plus(Times(matchRatio, Num(70)),
                        Times(Over(Num(densityScore), Num(Len(keywords))),
                              Num(30))))
    IN  [score |-> score, matched |-> matched, missing |-> missing]

calculateKeywordScore(res, job) ==
    Only({keywordScoreOf(resumeText, keywords) :
            resumeText \in {toLowerCase(res.content)},
            keywords \in {[i \in 1..Len(job.keywords) |->
                              toLowerCase(job.keywords[i])]}})

\* calculateKeywordScore throws: the constructor of the regular expression
\* of one of the lower-cased keywords does
calculateKeywordScoreThrows(job) ==
    \E i \in 1..Len(job.keywords) : RegExpThrows(toLowerCase(job.keywords[i]))

(***************************************************************************)
(* calculateExperienceScore                                                *)
(***************************************************************************)
\* Array.prototype.join(' ')
RECURSIVE joinSpace(_)
joinSpace(arr) ==
    IF arr = <<>> THEN <<>>
    ELSE IF Len(arr) = 1 THEN arr[1]
    ELSE arr[1] \o <<" ">> \o joinSpace(Tail(arr))

\* natural.WordTokenizer: the maximal runs of letters, digits and "_"
tokenize(text) ==
    LET StartsWord(i) ==
            IsWordChar(text[i]) /\ (i = 1 \/ ~IsWordChar(text[i - 1]))
        EndsWord(i) ==
            IsWordChar(text[i]) /\ (i = Len(text) \/ ~IsWordChar(text[i + 1]))
        starts == SelectSeq([i \in 1..Len(text) |-> i], StartsWord)
        ends == SelectSeq([i \in 1..Len(text) |-> i], EndsWord)
    IN  [k \in 1..Len(starts) |-> SubSeq(text, starts[k], ends[k])]

\* the entries of natural's English stop word list that are words of the
\* texts analysed here
stopwords == {
    <<"a">>, <<"a","n","d">>, <<"a","t">>, <<"f","o","r">>, <<"i","n">>,
    <<"o","f">>, <<"t","h","e">>, <<"t","o">>, <<"w","i","t","h">> }

\* TfIdf.addDocument of a string: the tokens of the lower-cased text that
\* are no stop words
buildDocument(text) ==
    LET NotStopword(term) == term \notin stopwords
    IN  SelectSeq(tokenize(toLowerCase(text)), NotStopword)

\* the distinct terms of a document, in the order of their first occurrence
RECURSIVE termsOf(_, _)
termsOf(doc, acc) ==
    IF doc = <<>> THEN acc
    ELSE termsOf(Tail(doc),
                 IF arrayIncludes(acc, Head(doc)) THEN acc
                 ELSE Append(acc, Head(doc)))

\* the term frequency of term in a document
tf(term, doc) == Cardinality({i \in DOMAIN doc : doc[i] = term})

\* idf = 1 + ln(N / (1 + docsWithTerm)) over the N = 2 documents, in
\* thousandths: 1 + ln(2/2) for a term of one document, 1 + ln(2/3) for a
\* term of both
IdfOneDocument == 1000

IdfBothDocuments == 595

idf(term, docs) ==
    IF \A d \in DOMAIN docs : arrayIncludes(docs[d], term)
    THEN IdfBothDocuments
    ELSE IdfOneDocument

\* insertion of x into a list sorted by descending tfidf, after its equals
RECURSIVE insertByTfidf(_, _)
insertByTfidf(sorted, x) ==
    IF sorted = <<>> THEN <<x>>
    ELSE IF Head(sorted).score >= x.score
         THEN <<Head(sorted)>> \o insertByTfidf(Tail(sorted), x)
         ELSE <<x>> \o sorted

RECURSIVE sortByTfidf(_, _)
sortByTfidf(items, acc) ==
    IF items = <<>> THEN acc
    ELSE sortByTfidf(Tail(items), insertByTfidf(acc, Head(items)))

\* TfIdf.listTerms(d): the terms of document d with their tfidf, highest first
listTerms(docs, d) ==
    LET terms == termsOf(docs[d], <<>>)
        items == [i \in 1..Len(terms) |->
                    [term |-> terms[i],
                     score |-> tf(terms[i], docs[d]) * idf(terms[i], docs)]]
    IN  sortByTfidf(items, <<>>)

RECURSIVE sumScores(_)
sumScores(items) ==
    IF items = <<>> THEN 0 ELSE Head(items).score + sumScores(Tail(items))

calculateExperienceScore(res, job) ==
    LET docs == <<buildDocument(joinSpace(res.experience)),
                  buildDocument(job.description)>>
        LongTerm(item) == Len(item.term) > 3
        jobTerms == SelectSeq(listTerms(docs, 2), LongTerm)
        resumeText == toLowerCase(res.content)
        InResume(item) == includes(resumeText, toLowerCase(item.term))
        top == slice0(jobTerms, 20)
        totalWeight == sumScores(top)
        matchCount == sumScores(SelectSeq(top, InResume))
        score == IF totalWeight > 0
                 THEN Times(Frac(matchCount, totalWeight), Num(100))
                 ELSE Num(0)
        relevant == slice0(jobTerms, 10)
        matchedItems == SelectSeq(jobTerms, InResume)
    IN  [score |-> score,
         relevantTerms |-> [i \in 1..Len(relevant) |-> relevant[i].term],
         matched |-> [i \in 1..Len(matchedItems) |-> matchedItems[i].term]]

(***************************************************************************)
(* calculateFormattingScore                                                *)
(***************************************************************************)
actionWords == <<
    <<"a","c","h","i","e","v","e","d">>, <<"m","a","n","a","g","e","d">>,
    <<"l","e","d">>, <<"d","e","v","e","l","o","p","e","d">>,
    <<"c","r","e","a","t","e","d">>, <<"i","m","p","r","o","v","e","d">>,
    <<"i","n","c","r","e","a","s","e","d">>,
    <<"d","e","c","r","e","a","s","e","d">>,
    <<"i","m","p","l","e","m","e","n","t","e","d">>,
    <<"d","e","s","i","g","n","e","d">>, <<"b","u","i","l","t">>,
    <<"e","s","t","a","b","l","i","s","h","e","d">>,
    <<"l","a","u","n","c","h","e","d">> >>

MinContentLength == 500

\* a penalty taken twice
penalize_Twice(st, penalty, issue) ==
    [score |-> st.score - 2 * penalty, issues |-> Append(st.issues, issue)]

\* score -= penalty; issues.push(issue)
penalize(st, penalty, issue) ==
    [score |-> st.score - penalty, issues |-> Append(st.issues, issue)]

\* the checks of calculateFormattingScore, in their order: the score before
\* its floor and the issues
formattingChecks(res) ==
    LET hasSkills == Len(res.skills) > 0
        hasExperience == Len(res.experience) > 0
        hasEducation == Len(res.education) > 0
        hasActionWords ==
            \E w \in DOMAIN actionWords :
                includes(toLowerCase(res.content), actionWords[w])
        st0 == [score |-> 100, issues |-> <<>>]
        st1 == IF Len(res.content) < MinContentLength
               THEN penalize(st0, 20, "Resume content is too short")
               ELSE st0
        st2 == IF ~hasSkills
               THEN penalize(st1, 30, "Missing skills section")
               ELSE st1
        st3 == IF ~hasExperience
               THEN penalize(st2, 30, "Missing experience section")
               ELSE st2
        st4 == IF ~hasEducation
               THEN penalize(st3, 20, "Missing education section")
               ELSE st3
        st5 == IF ~hasActionWords
               THEN penalize(st4, 10, "Lacks strong action verbs")
               ELSE st4
    IN  st5

\* a result without the floor at 0
formattingResult_NoFloor(st) == [score |-> Num(st.score), issues |-> st.issues]

\* return { score: Math.max(0, score), issues }
formattingResult(st) ==
    [score |-> MathMax(Num(0), Num(st.score)), issues |-> st.issues]

calculateFormattingScore(res) == formattingResult(formattingChecks(res))

(***************************************************************************)
(* generateSuggestions and calculateATSScore                               *)
(***************************************************************************)
\* A suggestion string is its fixed text and the items joined into it.
Suggestion(text, items) == [text |-> text, items |-> items]

\* the suggestion texts of generateSuggestions
SkillsText == "Add these critical skills: "

ExperienceText == "Expand your experience descriptions to include more relevant keywords and achievements"

KeywordsText == "Include these important keywords: "

FormattingText == "Formatting: "

GeneralText == "Excellent keyword optimization! Consider quantifying your achievements with metrics."

\* a skills suggestion that names every missing skill
skillsSuggestions_Unsliced(skillsA) ==
    IF Less(skillsA.score, Num(70)) /\ Len(skillsA.missing) > 0
    THEN <<Suggestion(SkillsText, skillsA.missing)>>
    ELSE <<>>

\* Skills suggestions
skillsSuggestions(skillsA) ==
    IF Less(skillsA.score, Num(70)) /\ Len(skillsA.missing) > 0
    THEN <<Suggestion(SkillsText, slice0(skillsA.missing, 5))>>
    ELSE <<>>

\* Experience suggestions
experienceSuggestions(experienceA) ==
    IF Less(experienceA.score, Num(60))
    THEN <<Suggestion(ExperienceText, <<>>)>>
    ELSE <<>>

\* Keyword suggestions
keywordSuggestions(keywordA) ==
    IF Less(keywordA.score, Num(70)) /\ Len(keywordA.missing) > 0
    THEN <<Suggestion(KeywordsText, slice0(keywordA.missing, 5))>>
    ELSE <<>>

\* Formatting suggestions
formattingSuggestions(formattingA) ==
    [i \in 1..Len(formattingA.issues) |->
        Suggestion(FormattingText, <<formattingA.issues[i]>>)]

\* a general suggestion for scores strictly above 80
generalSuggestions_StrictlyAbove(skillsA, keywordA) ==
    IF Less(Num(80), skillsA.score) /\ Less(Num(80), keywordA.score)
    THEN <<Suggestion(GeneralText, <<>>)>>
    ELSE <<>>

\* General suggestions
generalSuggestions(skillsA, keywordA) ==
    IF GreaterEq(skillsA.score, Num(80)) /\ GreaterEq(keywordA.score, Num(80))
    THEN <<Suggestion(GeneralText, <<>>)>>
    ELSE <<>>

\* suggestions that open with the general suggestion
generateSuggestions_GeneralFirst(skillsA, experienceA, keywordA, formattingA) ==
       generalSuggestions(skillsA, keywordA)
    \o skillsSuggestions(skillsA)
    \o experienceSuggestions(experienceA)
    \o keywordSuggestions(keywordA)
    \o formattingSuggestions(formattingA)

generateSuggestions(skillsA, experienceA, keywordA, formattingA) ==
       skillsSuggestions(skillsA)
    \o experienceSuggestions(experienceA)
    \o keywordSuggestions(keywordA)
    \o formattingSuggestions(formattingA)
    \o generalSuggestions(skillsA, keywordA)

\* WEIGHTS, in hundredths
WeightSkills == 40

WeightExperience == 30

WeightKeywords == 20

WeightFormatting == 10

Weight(w) == Frac(w, 100)

\* the weighted sum of four component scores
weightedSum(skills, experience, keywords, formatting) ==
    Plus(Plus(Plus(Times(skills, Weight(WEIGHTS.skills)),
                   Times(experience, Weight(WEIGHTS.experience))),
              Times(keywords, Weight(WEIGHTS.keywords))),
         Times(formatting, Weight(WEIGHTS.formatting)))

\* an overall score summed over the rounded component scores
overallScoreOf_RoundedOperands(skillsA, experienceA, keywordA, formattingA) ==
    MathRound(weightedSum(MathRound(skillsA.score),
                          MathRound(experienceA.score),
                          MathRound(keywordA.score),
                          MathRound(formattingA.score)))

\* the overall score of calculateATSScore from its four analyses
overallScoreOf(skillsA, experienceA, keywordA, formattingA) ==
    MathRound(weightedSum(skillsA.score, experienceA.score,
                          keywordA.score, formattingA.score))

ATSScoreResult(skillsA, experienceA, keywordA, formattingA) ==
    [overallScore |-> overallScoreOf(skillsA, experienceA, keywordA, formattingA),
     skillsScore |-> MathRound(skillsA.score),
     experienceScore |-> MathRound(experienceA.score),
     keywordScore |-> MathRound(keywordA.score),
     formattingScore |-> MathRound(formattingA.score),
     matchedSkills |-> skillsA.matched,
     missingSkills |-> skillsA.missing,
     matchedKeywords |-> keywordA.matched,
     missingKeywords |-> keywordA.missing,
     suggestions |-> generateSuggestions(skillsA, experienceA, keywordA, formattingA)]

\* the state before a call returned
NoAnalysis == [score |-> Num(0)]

NoResult == [overallScore |-> Num(0)]

NoSkill == <<>>

\* a call of calculateATSScore(resume, jobDescription): it returns its
\* result, or the SyntaxError of calculateKeywordScore leaves it and no
\* result is returned
calculateATSScore ==
    /\ pc = "start"
    /\ IF calculateKeywordScoreThrows(jobDescription)
       THEN /\ pc' = "threw"
            /\ error' = "SyntaxError: Invalid regular expression"
            /\ UNCHANGED <<skillsAnalysis, experienceAnalysis, keywordAnalysis,
                           formattingAnalysis, result>>
       ELSE /\ \E skillsA \in {calculateSkillsScore(resume, jobDescription)},
                  experienceA \in {calculateExperienceScore(resume, jobDescription)},
                  keywordA \in {calculateKeywordScore(resume, jobDescription)},
                  formattingA \in {calculateFormattingScore(resume)} :
                   /\ skillsAnalysis' = skillsA
                   /\ experienceAnalysis' = experienceA
                   /\ keywordAnalysis' = keywordA
                   /\ formattingAnalysis' = formattingA
                   /\ result' = ATSScoreResult(skillsA, experienceA, keywordA,
                                               formattingA)
            /\ pc' = "done"
            /\ UNCHANGED error
    /\ UNCHANGED <<resume, jobDescription, skill1, skill2, matchResult,
                   aiAnalysis, other, moduleVars, parserVars, routeVars,
                   now, authVars, profile>>

(***************************************************************************)
(* Regular expressions: a pattern is a tree of nodes, and Ends(node, text, *)
(* p) is the sequence of the offsets at which a match of node that starts  *)
(* at offset p of text can end, in the order in which the backtracking     *)
(* matcher tries them; the match the matcher returns ends at the first.    *)
(* Under the i flag the text is matched lower-cased against a lower-case   *)
(* pattern.                                                                *)
(***************************************************************************)
\* [...]: one character of the set
Chr(set) == [t |-> "set", set |-> set]

\* [^...]: one character outside the set
NotChr(set) == [t |-> "nset", set |-> set]

\* a run of literal characters
Lit(str) == [t |-> "lit", str |-> str]

\* the nodes of parts one after the other
Cat(parts) == [t |-> "cat", parts |-> parts]

\* (?:a|b|...): the alternatives of parts, tried from left to right
Alt(parts) == [t |-> "alt", parts |-> parts]

\* node{min,max}, greedy or lazy; max is -1 for no upper limit
Rep(node, min, max, greedy) ==
    [t |-> "rep", of |-> node, min |-> min, max |-> max, greedy |-> greedy]

\* ^ under the m flag
LineStart == [t |-> "bol"]

\* $ without the m flag
InputEnd == [t |-> "eoi"]

\* \b
WordBoundary == [t |-> "wb"]

\* (?=node)
Ahead(node) == [t |-> "ahead", of |-> node]

Star(node) == Rep(node, 0, -1, TRUE)

LazyStar(node) == Rep(node, 0, -1, FALSE)

OneOrMore(node) == Rep(node, 1, -1, TRUE)

Optional(node) == Rep(node, 0, 1, TRUE)

\* \s, \d, \w and the letters of [a-z] and [A-Z]
SpaceChars == Whitespace

WordChars == Range(LowerLetters) \cup Range(UpperLetters) \cup Digits \cup {"_"}

\* seq without the entries that occur earlier in it
firstOccurrences(seq) ==
    LET IsFirst(i) == \A j \in 1..(i - 1) : seq[j] # seq[i]
        firsts == SelectSeq([i \in 1..Len(seq) |-> i], IsFirst)
    IN  [k \in 1..Len(firsts) |-> seq[firsts[k]]]

\* the offset behind the longest run of at most limit characters from
\* offset p on that are in set (out of set when negated); a limit of -1 is
\* no limit
runEnd(text, set, negated, p, limit) ==
    LET Stops(q) ==
            \/ q = Len(text)
            \/ q - p = limit
            \/ (text[q + 1] \in set) = negated
        stops == SelectSeq([i \in 1..(Len(text) - p + 1) |-> p + i - 1], Stops)
    IN  stops[1]

RECURSIVE Ends(_, _, _)
RECURSIVE catEnds(_, _, _, _)
RECURSIVE altEnds(_, _, _, _)
RECURSIVE eachEnds(_, _, _, _, _)
RECURSIVE repEnds(_, _, _, _)

\* the ends of node from each of the offsets starts[i], ..., starts[j], in
\* order
eachEnds(node, text, starts, i, j) ==
    IF i > j THEN <<>>
    ELSE IF i = j THEN Ends(node, text, starts[i])
    ELSE eachEnds(node, text, starts, i, (i + j) \div 2)
         \o eachEnds(node, text, starts, (i + j) \div 2 + 1, j)

catEnds(parts, k, text, starts) ==
    IF k > Len(parts) \/ starts = <<>> THEN starts
    ELSE catEnds(parts, k + 1, text,
                 firstOccurrences(eachEnds(parts[k], text, starts, 1,
                                           Len(starts))))

altEnds(parts, k, text, p) ==
    IF k > Len(parts) THEN <<>>
    ELSE Ends(parts[k], text, p) \o altEnds(parts, k + 1, text, p)

\* the ends of a repetition that has matched count times up to offset p; an
\* iteration behind the minimum that matches the empty string is not taken
repEnds(node, text, p, count) ==
    LET inner == Ends(node.of, text, p)
        Advances(e) == e > p
        again == IF count >= node.min THEN SelectSeq(inner, Advances) ELSE inner
        RECURSIVE more(_)
        more(i) ==
            IF i > Len(again) THEN <<>>
            ELSE repEnds(node, text, again[i], count + 1) \o more(i + 1)
        further == IF node.max # -1 /\ count >= node.max THEN <<>> ELSE more(1)
        stop == IF count >= node.min THEN <<p>> ELSE <<>>
    IN  firstOccurrences(IF node.greedy THEN further \o stop
                         ELSE stop \o further)

\* the ends of a repetition of one character class: the runs of the class,
\* longest first when greedy
setRepEnds(node, text, p) ==
    LET far == runEnd(text, node.of.set, node.of.t = "nset", p, node.max)
        count == far - p - node.min + 1
    IN  IF count <= 0 THEN <<>>
        ELSE [i \in 1..count |->
                IF node.greedy THEN far - i + 1 ELSE p + node.min + i - 1]

Ends(node, text, p) ==
    CASE node.t = "set" ->
            IF p < Len(text) /\ text[p + 1] \in node.set
            THEN <<p + 1>> ELSE <<>>
      [] node.t = "nset" ->
            IF p < Len(text) /\ text[p + 1] \notin node.set
            THEN <<p + 1>> ELSE <<>>
      [] node.t = "lit" ->
            IF /\ p + Len(node.str) <= Len(text)
               /\ \A k \in 1..Len(node.str) : text[p + k] = node.str[k]
            THEN <<p + Len(node.str)>> ELSE <<>>
      [] node.t = "cat" -> catEnds(node.parts, 1, text, <<p>>)
      [] node.t = "alt" ->
            firstOccurrences(altEnds(node.parts, 1, text, p))
      [] node.t = "rep" ->
            IF node.of.t \in {"set", "nset"}
            THEN setRepEnds(node, text, p)
            ELSE repEnds(node, text, p, 0)
      [] node.t = "bol" ->
            IF p = 0 \/ text[p] = "\n" THEN <<p>> ELSE <<>>
      [] node.t = "eoi" -> IF p = Len(text) THEN <<p>> ELSE <<>>
      [] node.t = "wb" -> IF AtWordBoundary(text, p) THEN <<p>> ELSE <<>>
      [] node.t = "ahead" ->
            IF Ends(node.of, text, p) # <<>> THEN <<p>> ELSE <<>>

\* the end of the match of node that starts at offset p, -1 without a match
matchEnd(node, text, p) ==
    LET ends == Ends(node, text, p)
    IN  IF ends = <<>> THEN -1 ELSE ends[1]

\* regex.test(text) and text.match(regex) # null for a regular expression
\* whose lastIndex is 0: node matches somewhere in text
testRegExp(node, text) ==
    \E p \in 0..Len(text) : Ends(node, text, p) # <<>>

\* the offsets at which a match of node starts
matchStarts(node, text) ==
    LET Matches(p) == matchEnd(node, text, p) # -1
    IN  SelectSeq([i \in 1..(Len(text) + 1) |-> i - 1], Matches)

\* the scan of text.match(regex) under the g flag: the matches [from, to]
\* from left to right, each the first match that starts at or after offset
\* p, where the last match ended (one further on after an empty match)
RECURSIVE scanRegExp(_, _, _, _, _)
scanRegExp(node, text, starts, i, p) ==
    IF i > Len(starts) THEN <<>>
    ELSE IF starts[i] < p THEN scanRegExp(node, text, starts, i + 1, p)
    ELSE Only({<<[from |-> starts[i], to |-> to]>>
               \o scanRegExp(node, text, starts, i + 1,
                             IF to = starts[i] THEN to + 1 ELSE to) :
                 to \in {matchEnd(node, text, starts[i])}})

matchAll(node, text) ==
    Only({scanRegExp(node, text, starts, 1, 0) :
            starts \in {matchStarts(node, text)}})

\* the matched strings of text.match(regex) under the g flag, cut out of
\* original, the text before it was lower-cased (<<>> stands for null)
matchedStrings(node, text, original) ==
    LET found == matchAll(node, text)
    IN  [i \in 1..Len(found) |->
            SubSeq(original, found[i].from + 1, found[i].to)]

(***************************************************************************)
(* analyzeResumeWithAI (src/src/lib/ai-analysis.ts)                        *)
(***************************************************************************)
\* the character U+2022, the bullet
Bullet == "U+2022"

DigitChars == <<"0","1","2","3","4","5","6","7","8","9">>

\* String(n) for a natural number n
RECURSIVE decimal(_)
decimal(n) ==
    IF n < 10 THEN <<DigitChars[n + 1]>>
    ELSE Append(decimal(n \div 10), DigitChars[(n % 10) + 1])

\* Array.prototype.join(sep)
RECURSIVE joinWith(_, _)
joinWith(arr, sep) ==
    IF arr = <<>> THEN <<>>
    ELSE IF Len(arr) = 1 THEN arr[1]
    ELSE arr[1] \o sep \o joinWith(Tail(arr), sep)

\* String.prototype.split('\n'): the pieces between the line feeds
splitLines(text) ==
    LET IsBreak(i) == i = 0 \/ i = Len(text) + 1 \/ text[i] = "\n"
        breaks == SelectSeq([i \in 1..(Len(text) + 2) |-> i - 1], IsBreak)
    IN  [k \in 1..(Len(breaks) - 1) |->
            SubSeq(text, breaks[k] + 1, breaks[k + 1] - 1)]

\* String.prototype.startsWith for a one-character prefix
startsWith(s, c) == s # <<>> /\ s[1] = c

\* a string without items joined into it
Message(text) == Suggestion(text, <<>>)

\* the list that holds x when cond holds and is empty otherwise
When(cond, x) == IF cond THEN <<x>> ELSE <<>>

actionVerbs == <<
    <<"a","c","h","i","e","v","e","d">>,
    <<"a","d","m","i","n","i","s","t","e","r","e","d">>,
    <<"a","n","a","l","y","z","e","d">>,
    <<"a","r","r","a","n","g","e","d">>, <<"b","u","i","l","t">>,
    <<"c","a","l","c","u","l","a","t","e","d">>,
    <<"c","o","l","l","a","b","o","r","a","t","e","d">>,
    <<"c","o","m","p","l","e","t","e","d">>,
    <<"c","o","n","d","u","c","t","e","d">>,
    <<"c","o","o","r","d","i","n","a","t","e","d">>,
    <<"c","r","e","a","t","e","d">>,
    <<"d","e","l","i","v","e","r","e","d">>,
    <<"d","e","s","i","g","n","e","d">>,
    <<"d","e","v","e","l","o","p","e","d">>,
    <<"d","i","r","e","c","t","e","d">>,
    <<"e","s","t","a","b","l","i","s","h","e","d">>,
    <<"e","v","a","l","u","a","t","e","d">>,
    <<"e","x","e","c","u","t","e","d">>,
    <<"f","a","c","i","l","i","t","a","t","e","d">>,
    <<"g","e","n","e","r","a","t","e","d">>,
    <<"i","m","p","l","e","m","e","n","t","e","d">>,
    <<"i","m","p","r","o","v","e","d">>,
    <<"i","n","c","r","e","a","s","e","d">>,
    <<"i","n","i","t","i","a","t","e","d">>,
    <<"l","a","u","n","c","h","e","d">>, <<"l","e","d">>,
    <<"m","a","n","a","g","e","d">>,
    <<"o","p","t","i","m","i","z","e","d">>,
    <<"o","r","g","a","n","i","z","e","d">>,
    <<"p","l","a","n","n","e","d">>, <<"p","r","o","d","u","c","e","d">>,
    <<"r","e","d","u","c","e","d">>,
    <<"r","e","d","e","s","i","g","n","e","d">>,
    <<"r","e","s","o","l","v","e","d">>,
    <<"s","t","r","e","a","m","l","i","n","e","d">>,
    <<"s","u","p","e","r","v","i","s","e","d">>,
    <<"t","r","a","i","n","e","d">> >>

\* countActionVerbs: the matches of \bverb\b in the lower-cased content,
\* summed over the verbs
RECURSIVE countVerbs(_, _)
countVerbs(lowerContent, i) ==
    IF i > Len(actionVerbs) THEN 0
    ELSE CountMatches(lowerContent, actionVerbs[i])
         + countVerbs(lowerContent, i + 1)

countActionVerbs(content) ==
    Only({countVerbs(lowerContent, 1) : lowerContent \in {toLowerCase(content)}})

Digit == Chr(Digits)

\* \d+(?:,\d{3})*(?:\.\d+)?
Amount ==
    Cat(<<OneOrMore(Digit),
          Star(Cat(<<Lit(<<",">>), Rep(Digit, 3, 3, TRUE)>>)),
          Optional(Cat(<<Lit(<<".">>), OneOrMore(Digit)>>))>>)

\* the four patterns of extractMetrics, under the i flag
metricPatterns == <<
    Cat(<<Alt(<<Lit(<<"i","n","c","r","e","a","s","e","d">>),
                  Lit(<<"d","e","c","r","e","a","s","e","d">>),
                  Lit(<<"i","m","p","r","o","v","e","d">>),
                  Lit(<<"r","e","d","u","c","e","d">>),
                  Lit(<<"g","r","e","w">>),
                  Lit(<<"g","r","e","w"," ","b","y">>),
                  Lit(<<"s","a","v","e","d">>),
                  Lit(<<"g","e","n","e","r","a","t","e","d">>),
                  Lit(<<"a","c","h","i","e","v","e","d">>)>>),
          OneOrMore(Chr(SpaceChars)),
          LazyStar(NotChr({"."})),
          Alt(<<Cat(<<Amount, Optional(Lit(<<"%">>))>>),
                Cat(<<Lit(<<"$">>), OneOrMore(Digit),
                      Optional(Chr({"k","m","b"}))>>)>>),
          Star(NotChr({"."}))>>),
    Cat(<<Amount, Lit(<<"%">>), OneOrMore(Chr(SpaceChars)),
          Alt(<<Lit(<<"i","n","c","r","e","a","s","e">>),
                  Lit(<<"d","e","c","r","e","a","s","e">>),
                  Lit(<<"i","m","p","r","o","v","e","m","e","n","t">>),
                  Lit(<<"g","r","o","w","t","h">>),
                  Lit(<<"r","e","d","u","c","t","i","o","n">>)>>)>>),
    Cat(<<Lit(<<"$">>), Amount, Optional(Chr({"k","m","b"})),
          OneOrMore(Chr(SpaceChars)),
          Alt(<<Lit(<<"r","e","v","e","n","u","e">>), Lit(<<"s","a","l","e","s">>),
                  Lit(<<"s","a","v","i","n","g","s">>),
                  Lit(<<"b","u","d","g","e","t">>)>>)>>),
    Cat(<<Alt(<<Lit(<<"t","e","a","m"," ","o","f">>),
                  Lit(<<"m","a","n","a","g","e","d">>),
                  Lit(<<"l","e","d">>)>>),
          OneOrMore(Chr(SpaceChars)), OneOrMore(Digit),
          OneOrMore(Chr(SpaceChars)),
          Alt(<<Lit(<<"p","e","o","p","l","e">>),
                  Lit(<<"d","e","v","e","l","o","p","e","r","s">>),
                  Lit(<<"m","e","m","b","e","r","s">>),
                  Lit(<<"e","n","g","i","n","e","e","r","s">>)>>)>>) >>

\* metrics.push(...matches.map(m => m.trim())) for each pattern in turn
RECURSIVE pushMetrics(_, _, _)
pushMetrics(lowerContent, content, i) ==
    IF i > Len(metricPatterns) THEN <<>>
    ELSE LET matches == matchedStrings(metricPatterns[i], lowerContent, content)
         IN  [k \in 1..Len(matches) |-> trim(matches[k])]
             \o pushMetrics(lowerContent, content, i + 1)

\* the matches of the patterns as they are pushed
extractMetrics_Pushed(content) ==
    pushMetrics(toLowerCase(content), content, 1)

\* extractMetrics: the matches of the patterns, each string once ([...new
\* Set(metrics)] keeps the first occurrence of a string)
extractMetrics(content) ==
    Only({firstOccurrences(pushMetrics(lowerContent, content, 1)) :
            lowerContent \in {toLowerCase(content)}})

identifyStrengths(res, ats) ==
    Only({
           When(Len(res.skills) >= 10,
                Suggestion("Strong skill set with ${resume.skills.length} identified skills",
                           <<decimal(Len(res.skills))>>))
        \o When(GreaterEq(ats.overallScore, Num(80)),
                Message("Excellent ATS compatibility - highly likely to pass automated screening"))
        \o When(GreaterEq(ats.skillsScore, Num(85)),
                Message("Strong skills alignment with job requirements"))
        \o When(GreaterEq(ats.keywordScore, Num(80)),
                Message("Excellent keyword optimization"))
        \o When(Len(res.experience) >= 3,
                Message("Comprehensive work experience documentation"))
        \o When(Len(res.projects) >= 2,
                Message("Strong project portfolio demonstrates practical experience"))
        \o When(verbs >= 10,
                Suggestion("Effective use of ${actionVerbs} action verbs to demonstrate achievements",
                           <<decimal(verbs)>>))
        \o When(Len(metrics) >= 3,
                Message("Good use of quantifiable metrics and results")) :
        verbs \in {countActionVerbs(res.content)},
        metrics \in {extractMetrics(res.content)}})

identifyWeaknesses(res, ats) ==
    Only({
           When(Less(ats.overallScore, Num(60)),
                Message("Low ATS score may result in automatic rejection"))
        \o When(Less(ats.skillsScore, Num(60)),
                Message("Insufficient skills match with job requirements"))
        \o When(Less(ats.keywordScore, Num(50)),
                Message("Missing critical keywords from job description"))
        \o When(Len(res.skills) < 5,
                Message("Limited skills listed - add more relevant technical and soft skills"))
        \o When(Len(res.experience) = 0,
                Message("No work experience section detected"))
        \o When(Len(res.education) = 0,
                Message("Missing education information"))
        \o When(Len(res.projects) = 0,
                Message("No projects section - consider adding relevant projects"))
        \o When(verbs < 5,
                Message("Lacks strong action verbs - use words like \"achieved\", \"led\", \"developed\""))
        \o When(Len(metrics) < 2,
                Message("Few quantifiable achievements - add specific numbers, percentages, or metrics"))
        \o When(Len(res.content) < 800,
                Message("Resume appears too brief - add more detail to experience and achievements"))
        \o When(Len(res.content) > 5000,
                Message("Resume may be too lengthy - consider condensing to most relevant information")) :
        verbs \in {countActionVerbs(res.content)},
        metrics \in {extractMetrics(res.content)}})

\* /^[\s]*[U+2022\-*]\s+/gm
bulletPattern ==
    Cat(<<LineStart, Star(Chr(SpaceChars)), Chr({Bullet, "-", "*"}),
          OneOrMore(Chr(SpaceChars))>>)

\* /(?:led|managed|coordinated|oversaw)/gi
contextPattern == Alt(<<Lit(<<"l","e","d">>), Lit(<<"m","a","n","a","g","e","d">>),
    Lit(<<"c","o","o","r","d","i","n","a","t","e","d">>),
    Lit(<<"o","v","e","r","s","a","w">>)>>)

\* /(?:developed|created|implemented|designed|built)/gi
actionPattern == Alt(<<Lit(<<"d","e","v","e","l","o","p","e","d">>),
    Lit(<<"c","r","e","a","t","e","d">>),
    Lit(<<"i","m","p","l","e","m","e","n","t","e","d">>),
    Lit(<<"d","e","s","i","g","n","e","d">>),
    Lit(<<"b","u","i","l","t">>)>>)

\* /(?:increased|decreased|improved|reduced|achieved)/gi
resultPattern == Alt(<<Lit(<<"i","n","c","r","e","a","s","e","d">>),
    Lit(<<"d","e","c","r","e","a","s","e","d">>),
    Lit(<<"i","m","p","r","o","v","e","d">>),
    Lit(<<"r","e","d","u","c","e","d">>),
    Lit(<<"a","c","h","i","e","v","e","d">>)>>)

\* the checks of analyzeBulletPoints on the joined experience, in their
\* order: the score before its floor and the feedback
bulletChecks(content, lowerContent, bulletPoints, lines) ==
    LET IsLong(l) == Len(l) > 150
        IsShort(l) == Len(l) < 30
        tooLong == SelectSeq(lines, IsLong)
        tooShort == SelectSeq(lines, IsShort)
        st0 == [score |-> 100, issues |-> <<>>]
        st1 == IF Len(bulletPoints) < 3
               THEN penalize(st0, 30,
                        Message("Add bullet points to structure your experience"))
               ELSE st0
        st2 == IF ~testRegExp(actionPattern, lowerContent)
               THEN penalize(st1, 25,
                        Message("Include strong action verbs at the start of each bullet point"))
               ELSE st1
        st3 == IF ~testRegExp(resultPattern, lowerContent)
               THEN penalize(st2, 25,
                        Message("Add measurable results and outcomes to your accomplishments"))
               ELSE st2
        st4 == IF ~testRegExp(contextPattern, lowerContent)
               THEN penalize(st3, 10,
                        Message("Provide context about your role and responsibilities"))
               ELSE st3
        st5 == IF Len(tooLong) > 0
               THEN penalize(st4, 10,
                        Message("Some bullet points are too long - aim for 1-2 lines each"))
               ELSE st4
        st6 == IF 2 * Len(tooShort) > Len(lines)
               THEN penalize(st5, 10,
                        Message("Many bullet points lack detail - expand with specific achievements"))
               ELSE st5
    IN  st6

\* a result without the floor of its score
qualityResult_NoFloor(st) ==
    [score |-> Num(st.score), feedback |-> st.issues]

\* return { score: Math.max(0, score), feedback }
qualityResult(st) ==
    [score |-> MathMax(Num(0), Num(st.score)), feedback |-> st.issues]

analyzeBulletPoints(res) ==
    LET IsBulletLine(l) ==
            startsWith(trim(l), "-") \/ startsWith(trim(l), Bullet)
    IN  Only({qualityResult(
                bulletChecks(content, toLowerCase(content),
                             matchAll(bulletPattern, content),
                             SelectSeq(splitLines(content),
                                       IsBulletLine))) :
              content \in {joinWith(res.experience, <<"\n">>)}})

\* /(?:was|were|been|being)\s+\w+ed/gi
passivePattern ==
    Cat(<<Alt(<<Lit(<<"w","a","s">>), Lit(<<"w","e","r","e">>),
                  Lit(<<"b","e","e","n">>),
                  Lit(<<"b","e","i","n","g">>)>>),
          OneOrMore(Chr(SpaceChars)), OneOrMore(Chr(WordChars)),
          Lit(<<"e","d">>)>>)

\* /\b(?:I|me|my|mine)\b/gi
firstPersonPattern ==
    Cat(<<WordBoundary, Alt(<<Lit(<<"i">>), Lit(<<"m","e">>), Lit(<<"m","y">>),
                  Lit(<<"m","i","n","e">>)>>), WordBoundary>>)

\* /[.!?]+/
sentenceEndPattern == OneOrMore(Chr({".", "!", "?"}))

\* /\b\w{12,}\b/g
complexWordPattern ==
    Cat(<<WordBoundary, Rep(Chr(WordChars), 12, -1, TRUE), WordBoundary>>)

cliches == <<
    <<"t","e","a","m"," ","p","l","a","y","e","r">>,
    <<"t","h","i","n","k"," ","o","u","t","s","i","d","e"," ","t","h","e"," ","b","o","x">>,
    <<"g","o","-","g","e","t","t","e","r">>,
    <<"h","a","r","d"," ","w","o","r","k","e","r">>,
    <<"d","e","t","a","i","l","-","o","r","i","e","n","t","e","d">>,
    <<"s","e","l","f","-","m","o","t","i","v","a","t","e","d">>,
    <<"r","e","s","u","l","t","s","-","d","r","i","v","e","n">> >>

\* the analyzer's vocabulary: the AFINN word values under the keys the
\* stemmer gives them, for the words of the texts analysed here
afinnStemmed ==
    [stem \in {<<"b","a","d">>,
               <<"t","e","r","r","i","b","l">>,
               <<"f","a","i","l">>,
               <<"p","o","o","r">>,
               <<"g","r","e","a","t">>,
               <<"i","m","p","r","o","v">>,
               <<"i","n","c","r","e","a","s">>,
               <<"g","r","o","w","t","h">>,
               <<"p","r","o","m","o","t">>} |->
        CASE stem = <<"b","a","d">> -> -3
          [] stem = <<"t","e","r","r","i","b","l">> -> -3
          [] stem = <<"f","a","i","l">> -> -2
          [] stem = <<"p","o","o","r">> -> -2
          [] stem = <<"g","r","e","a","t">> -> 3
          [] stem = <<"i","m","p","r","o","v">> -> 2
          [] stem = <<"i","n","c","r","e","a","s">> -> 1
          [] stem = <<"g","r","o","w","t","h">> -> 2
          [] stem = <<"p","r","o","m","o","t">> -> 1]

\* the entries of the analyzer's list of English negations
negationWords == {<<"n","o","t">>, <<"n","o">>, <<"n","e","v","e","r">>}

\* PorterStemmer.stem on the words of the texts analysed here whose stem
\* has a value in the vocabulary
porterStems ==
    [word \in {<<"t","e","r","r","i","b","l","e">>,
               <<"f","a","i","l","e","d">>,
               <<"i","m","p","r","o","v","e","d">>,
               <<"i","n","c","r","e","a","s","e","d">>,
               <<"p","r","o","m","o","t","e","d">>} |->
        CASE word = <<"t","e","r","r","i","b","l","e">> -> <<"t","e","r","r","i","b","l">>
          [] word = <<"f","a","i","l","e","d">> -> <<"f","a","i","l">>
          [] word = <<"i","m","p","r","o","v","e","d">> -> <<"i","m","p","r","o","v">>
          [] word = <<"i","n","c","r","e","a","s","e","d">> -> <<"i","n","c","r","e","a","s">>
          [] word = <<"p","r","o","m","o","t","e","d">> -> <<"p","r","o","m","o","t">>]

stem(word) == IF word \in DOMAIN porterStems THEN porterStems[word] ELSE word

\* SentimentAnalyzer.getSentiment: the loop over the words; st is [score,
\* negator]. A negation turns the sign of every later word; a word counts
\* with the valence of its own entry or, without one, of the entry of its
\* stem.
RECURSIVE sentimentLoop(_, _, _, _)
sentimentLoop(analyzer, words, i, st) ==
    IF i > Len(words) THEN st.score
    ELSE LET lowerCased == toLowerCase(words[i])
         IN  IF lowerCased \in analyzer.negations
             THEN sentimentLoop(analyzer, words, i + 1,
                                [score |-> st.score, negator |-> -1])
             ELSE IF lowerCased \in DOMAIN analyzer.vocabulary
             THEN sentimentLoop(analyzer, words, i + 1,
                    [score |-> st.score
                               + st.negator * analyzer.vocabulary[lowerCased],
                     negator |-> st.negator])
             ELSE IF stem(lowerCased) \in DOMAIN analyzer.vocabulary
             THEN sentimentLoop(analyzer, words, i + 1,
                    [score |-> st.score
                               + st.negator * analyzer.vocabulary[stem(lowerCased)],
                     negator |-> st.negator])
             ELSE sentimentLoop(analyzer, words, i + 1, st)

\* score / words.length, which is NaN for no words
getSentiment(analyzer, words) ==
    Frac(sentimentLoop(analyzer, words, 1, [score |-> 0, negator |-> 1]),
         Len(words))

\* tokenizer.tokenize: the runs of word characters, the empty strings of
\* the split discarded
tokenizeWords(wordTokenizer, text) ==
    LET pieces == tokenize(text)
        NotEmpty(piece) == piece # <<>>
    IN  IF wordTokenizer.discardEmpty THEN SelectSeq(pieces, NotEmpty)
        ELSE pieces

\* the checks of analyzeLanguageQuality, in their order: the score before
\* its floor and the feedback
languageChecks(content, lowerContent, analyzer, wordTokenizer) ==
    LET passiveMatches == matchAll(passivePattern, lowerContent)
        firstPerson == matchAll(firstPersonPattern, lowerContent)
        sentenceCount == Len(matchAll(sentenceEndPattern, content)) + 1
        complexWords == matchAll(complexWordPattern, content)
        Found(cliche) == includes(lowerContent, cliche)
        foundCliches == SelectSeq(cliches, Found)
        sentimentScore ==
            getSentiment(analyzer, tokenizeWords(wordTokenizer, lowerContent))
        st0 == [score |-> 100, issues |-> <<>>]
        st1 == IF Len(passiveMatches) > 5
               THEN penalize(st0, 15,
                        Message("Reduce passive voice - use active voice for stronger impact"))
               ELSE st0
        st2 == IF Len(firstPerson) > 3
               THEN penalize(st1, 10,
                        Message("Minimize use of first-person pronouns (I, me, my)"))
               ELSE st1
        st3 == IF 10 * Len(complexWords) > 3 * sentenceCount
               THEN penalize(st2, 10,
                        Message("Simplify complex terminology where possible for better readability"))
               ELSE st2
        st4 == IF Len(foundCliches) > 2
               THEN penalize(st3, 15,
                        Message("Replace cliches with specific examples and achievements"))
               ELSE st3
        st5 == IF Less(sentimentScore, Frac(-1, 2))
               THEN penalize(st4, 10,
                        Message("Overall tone appears negative - frame experiences more positively"))
               ELSE st4
    IN  st5

analyzeLanguageQuality(res, analyzer, wordTokenizer) ==
    Only({qualityResult(languageChecks(res.content, lowerContent, analyzer,
                                       wordTokenizer)) :
            lowerContent \in {toLowerCase(res.content)}})

impactSuggestions(metrics) ==
    IF Len(metrics) = 0
    THEN <<Message("Add specific numbers: \"Increased sales by 25%\""),
           Message("Include time frames: \"Reduced processing time from 2 hours to 30 minutes\""),
           Message("Quantify team size: \"Led a team of 5 developers\""),
           Message("Show scale: \"Managed database with 1M+ records\"")>>
    ELSE IF Len(metrics) < 3
    THEN <<Message("Add more quantifiable achievements throughout your experience")>>
    ELSE <<>>

analyzeImpact(res) ==
    Only({[hasQuantifiableResults |-> Len(metrics) >= 2,
           examples |-> metrics,
           suggestions |-> impactSuggestions(metrics)] :
            metrics \in {extractMetrics(res.content)}})

\* the improvements before the cut to ten, with the feedback on bullet
\* points pushed twice
pushImprovements_FeedbackTwice(ats, bulletQuality, languageQuality, impactAnalysis) ==
       When(Len(ats.missingSkills) > 0,
            Suggestion("HIGH PRIORITY: Add these missing skills - ",
                       slice0(ats.missingSkills, 3)))
    \o When(Len(ats.missingKeywords) > 0,
            Suggestion("Add critical keywords: ",
                       slice0(ats.missingKeywords, 3)))
    \o (IF Less(bulletQuality.score, Num(70))
        THEN slice0(bulletQuality.feedback, 2) \o slice0(bulletQuality.feedback, 2)
        ELSE <<>>)
    \o (IF Less(languageQuality.score, Num(70))
        THEN slice0(languageQuality.feedback, 2)
        ELSE <<>>)
    \o (IF ~impactAnalysis.hasQuantifiableResults
        THEN slice0(impactAnalysis.suggestions, 2)
        ELSE <<>>)
    \o When(Less(ats.formattingScore, Num(80)),
            Message("Improve resume formatting for better ATS compatibility"))

\* the improvements generateImprovements pushes, before the cut to ten
pushImprovements(ats, bulletQuality, languageQuality, impactAnalysis) ==
       When(Len(ats.missingSkills) > 0,
            Suggestion("HIGH PRIORITY: Add these missing skills - ",
                       slice0(ats.missingSkills, 3)))
    \o When(Len(ats.missingKeywords) > 0,
            Suggestion("Add critical keywords: ",
                       slice0(ats.missingKeywords, 3)))
    \o (IF Less(bulletQuality.score, Num(70))
        THEN slice0(bulletQuality.feedback, 2)
        ELSE <<>>)
    \o (IF Less(languageQuality.score, Num(70))
        THEN slice0(languageQuality.feedback, 2)
        ELSE <<>>)
    \o (IF ~impactAnalysis.hasQuantifiableResults
        THEN slice0(impactAnalysis.suggestions, 2)
        ELSE <<>>)
    \o When(Less(ats.formattingScore, Num(80)),
            Message("Improve resume formatting for better ATS compatibility"))

\* return improvements.slice(0, 10)
generateImprovements(res, ats, bulletQuality, languageQuality, impactAnalysis) ==
    slice0(pushImprovements(ats, bulletQuality, languageQuality,
                            impactAnalysis), 10)

AIAnalysisResult(res, ats, bulletQuality, languageQuality, impactAnalysis) ==
    [strengths |-> identifyStrengths(res, ats),
     weaknesses |-> identifyWeaknesses(res, ats),
     improvements |-> generateImprovements(res, ats, bulletQuality,
                                           languageQuality, impactAnalysis),
     bulletPointQuality |-> bulletQuality,
     languageQuality |-> languageQuality,
     impactAnalysis |-> impactAnalysis]

\* the value analyzeResumeWithAI(res, ats) resolves to, with the sentiment
\* analyzer and the tokenizer of the module
aiAnalysisOf(res, ats, analyzer, wordTokenizer) ==
    Only({AIAnalysisResult(res, ats, bulletQuality, languageQuality,
                           impactAnalysis) :
            bulletQuality \in {analyzeBulletPoints(res)},
            languageQuality \in {analyzeLanguageQuality(res, analyzer,
                                                        wordTokenizer)},
            impactAnalysis \in {analyzeImpact(res)}})

(***************************************************************************)
(* The module-level values and the calls of the two analyses               *)
(***************************************************************************)
\* const WEIGHTS = {...}, in hundredths
WeightsObject ==
    [skills |-> WeightSkills, experience |-> WeightExperience,
     keywords |-> WeightKeywords, formatting |-> WeightFormatting]

\* new natural.SentimentAnalyzer('English', natural.PorterStemmer, 'afinn')
SentimentAnalyzer == [vocabulary |-> afinnStemmed, negations |-> negationWords]

\* new natural.WordTokenizer()
WordTokenizer == [discardEmpty |-> TRUE]

\* the module-level values once the modules are loaded
ModulesLoaded ==
    /\ WEIGHTS = WeightsObject
    /\ sentiment = SentimentAnalyzer
    /\ tokenizer = WordTokenizer

NoAIAnalysis == [improvements |-> <<>>]

\* the call with missingSkills.splice(0, 3) in the place of slice(0, 3): the
\* three skills it names are taken out of the list of the atsScore
analyzeResumeWithAI_Splice ==
    /\ pc = "done"
    /\ aiAnalysis' = aiAnalysisOf(resume, result, sentiment, tokenizer)
    /\ result' = [result EXCEPT
            !.missingSkills = SubSeq(@, Min2(Len(@), 3) + 1, Len(@))]
    /\ pc' = "analyzed"
    /\ UNCHANGED <<resume, jobDescription, skillsAnalysis, experienceAnalysis,
                   keywordAnalysis, formattingAnalysis, skill1, skill2,
                   matchResult, error, other, moduleVars, parserVars,
                   routeVars, now, authVars, profile>>

\* the call analyzeResumeWithAI(resume, result) of the analyze route, on
\* the result calculateATSScore returned
analyzeResumeWithAI ==
    /\ pc = "done"
    /\ aiAnalysis' = aiAnalysisOf(resume, result, sentiment, tokenizer)
    /\ pc' = "analyzed"
    /\ UNCHANGED <<resume, jobDescription, skillsAnalysis, experienceAnalysis,
                   keywordAnalysis, formattingAnalysis, result, skill1, skill2,
                   matchResult, error, other, moduleVars, parserVars,
                   routeVars, now, authVars, profile>>

\* the value calculateATSScore(res, job) returns when it returns
atsScoreOf(res, job) ==
    Only({ATSScoreResult(skillsA, experienceA, keywordA, formattingA) :
            skillsA \in {calculateSkillsScore(res, job)},
            experienceA \in {calculateExperienceScore(res, job)},
            keywordA \in {calculateKeywordScore(res, job)},
            formattingA \in {calculateFormattingScore(res)}})

\* the analyses of other requests that the server runs before, between and
\* after the two calls above
OtherAnalyses == {"second", "third"}

NoOther == [a \in OtherAnalyses |-> [pc |-> "none"]]

\* the call with weights that it scales in place to the score it computes
calculateATSScoreOf_ScaleWeights(a) ==
    /\ other[a].pc = "start"
    /\ other' = [other EXCEPT ![a] =
            IF calculateKeywordScoreThrows(other[a].jobDescription)
            THEN [other[a] EXCEPT !.pc = "threw"]
            ELSE [other[a] EXCEPT
                    !.result = atsScoreOf(other[a].resume,
                                          other[a].jobDescription),
                    !.pc = "done"]]
    /\ WEIGHTS' = [WEIGHTS EXCEPT !.skills = 0]
    /\ UNCHANGED <<callVars, sentiment, tokenizer, parserVars, routeVars,
                   now, authVars, profile>>

\* the call of calculateATSScore of another analysis a
calculateATSScoreOf(a) ==
    /\ other[a].pc = "start"
    /\ other' = [other EXCEPT ![a] =
            IF calculateKeywordScoreThrows(other[a].jobDescription)
            THEN [other[a] EXCEPT !.pc = "threw"]
            ELSE [other[a] EXCEPT
                    !.result = atsScoreOf(other[a].resume,
                                          other[a].jobDescription),
                    !.pc = "done"]]
    /\ UNCHANGED <<callVars, moduleVars, parserVars, routeVars,
                   now, authVars, profile>>

\* the call with a sentiment analyzer that drops its vocabulary once it has
\* scored a text
analyzeResumeWithAIOf_DropVocabulary(a) ==
    /\ other[a].pc = "done"
    /\ other' = [other EXCEPT ![a] =
            [other[a] EXCEPT
                !.aiAnalysis = aiAnalysisOf(other[a].resume, other[a].result,
                                            sentiment, tokenizer),
                !.pc = "analyzed"]]
    /\ sentiment' = [sentiment EXCEPT !.vocabulary = <<>>]
    /\ UNCHANGED <<callVars, WEIGHTS, tokenizer, parserVars, routeVars,
                   now, authVars, profile>>

\* the call of analyzeResumeWithAI of another analysis a
analyzeResumeWithAIOf(a) ==
    /\ other[a].pc = "done"
    /\ other' = [other EXCEPT ![a] =
            [other[a] EXCEPT
                !.aiAnalysis = aiAnalysisOf(other[a].resume, other[a].result,
                                            sentiment, tokenizer),
                !.pc = "analyzed"]]
    /\ UNCHANGED <<callVars, moduleVars, parserVars, routeVars,
                   now, authVars, profile>>

(***************************************************************************)
(* parseResume (src/src/lib/resume-parser.ts)                              *)
(***************************************************************************)
\* [\s\S] and the dot
AnyChar == NotChr({})

Dot == NotChr({"\n"})

\* [a-z], which under the i flag is [A-Z] as well, and [A-Z] without the flag
LowerSet == Range(LowerLetters)

UpperSet == Range(UpperLetters)

Spaces == Star(Chr(SpaceChars))

\* the words of the section headers, lower-cased
ExperienceWord == Lit(<<"e","x","p","e","r","i","e","n","c","e">>)

EducationWord == Lit(<<"e","d","u","c","a","t","i","o","n">>)

ProjectsWord == Lit(<<"p","r","o","j","e","c","t","s">>)

SkillsWord == Lit(<<"s","k","i","l","l","s">>)

SkillWord == Lit(<<"s","k","i","l","l">>)

ProjectWord == Lit(<<"p","r","o","j","e","c","t">>)
\* \s*:?\s*([\s\S]*?), the tail of a section header and the body behind it
SectionBody ==
    Cat(<<Spaces, Optional(Lit(<<":">>)), Spaces, LazyStar(AnyChar)>>)

\* \n[A-Z][a-z]+\s*: under the i flag
HeaderAhead ==
    Cat(<<Lit(<<"\n">>), Chr(LowerSet), OneOrMore(Chr(LowerSet)), Spaces,
          Lit(<<":">>)>>)

\* \n\n[A-Z] under the i flag
ParagraphAhead == Cat(<<Lit(<<"\n","\n">>), Chr(LowerSet)>>)

\* the first match of text.match(regex), cut out of original (<<>> stands
\* for null: no match of a pattern used here is empty)
firstMatch(node, text, original) ==
    Only({IF starts = <<>> THEN <<>>
          ELSE SubSeq(original, starts[1] + 1,
                      matchEnd(node, text, starts[1])) :
            starts \in {matchStarts(node, text)}})

\* the pieces of seq between the offsets cuts[k].from and cuts[k].to
piecesBetween(seq, cuts) ==
    [k \in 1..(Len(cuts) + 1) |->
        SubSeq(seq,
               IF k = 1 THEN 1 ELSE cuts[k - 1].to + 1,
               IF k > Len(cuts) THEN Len(seq) ELSE cuts[k].from)]

\* String.prototype.split(regex) for a regular expression without an empty
\* match
splitRegExp(node, text) == piecesBetween(text, matchAll(node, text))

\* the lists of a list of lists, one after the other
RECURSIVE flatten(_)
flatten(lists) ==
    IF lists = <<>> THEN <<>> ELSE Head(lists) \o flatten(Tail(lists))

\* the three patterns of extractSkills, under the i flag
skillsSections == <<
    Cat(<<SkillWord, Optional(Lit(<<"s">>)), SectionBody,
          Ahead(Alt(<<Lit(<<"\n","\n">>), HeaderAhead,
                      Cat(<<Lit(<<"\n">>),
                            Alt(<<ExperienceWord,
                                  EducationWord,
                                  ProjectsWord,
                                  Lit(<<"c","e","r","t","i","f","i","c","a","t","i","o","n","s">>)>>)>>)>>))>>),
    Cat(<<Lit(<<"t","e","c","h","n","i","c","a","l">>), OneOrMore(Chr(SpaceChars)),
          SkillWord, Optional(Lit(<<"s">>)), SectionBody,
          Ahead(Alt(<<Lit(<<"\n","\n">>), HeaderAhead>>))>>),
    Cat(<<Lit(<<"c","o","r","e">>), OneOrMore(Chr(SpaceChars)),
          Lit(<<"c","o","m","p","e","t","e","n","c","i","e","s">>), SectionBody,
          Ahead(Alt(<<Lit(<<"\n","\n">>), HeaderAhead>>))>>) >>

\* /[,;(bullet)\n|]/g
SkillDelimiters == {",", ";", Bullet, "\n", "|"}

\* part.trim().replace(/^[-(bullet)*]\s*/, '').replace(/\s+/g, ' ')
cleanSkill(part) ==
    LET trimmed == trim(part)
        unbulleted ==
            IF trimmed # <<>> /\ trimmed[1] \in {"-", Bullet, "*"}
            THEN trimStart(Tail(trimmed))
            ELSE trimmed
        Kept(i) ==
            unbulleted[i] \notin Whitespace
                \/ i = 1 \/ unbulleted[i - 1] \notin Whitespace
        kept == SelectSeq([i \in 1..Len(unbulleted) |-> i], Kept)
    IN  [k \in 1..Len(kept) |->
            IF unbulleted[kept[k]] \in Whitespace THEN " "
            ELSE unbulleted[kept[k]]]

extractSkillsFromText(text) ==
    LET IsDelimiter(i) == text[i] \in SkillDelimiters
        cuts == SelectSeq([i \in 1..Len(text) |-> i], IsDelimiter)
        parts == piecesBetween(text,
                    [k \in 1..Len(cuts) |->
                        [from |-> cuts[k] - 1, to |-> cuts[k]]])
        IsSkill(cleaned) == Len(cleaned) > 1 /\ Len(cleaned) < 50
    IN  SelectSeq([k \in 1..Len(parts) |-> cleanSkill(parts[k])], IsSkill)

commonSkills ==
    <<<<"J","a","v","a","S","c","r","i","p","t">>,
      <<"T","y","p","e","S","c","r","i","p","t">>,
      <<"P","y","t","h","o","n">>, <<"J","a","v","a">>, <<"C","+","+">>,
      <<"C","#">>, <<"R","u","b","y">>, <<"P","H","P">>, <<"G","o">>,
      <<"R","u","s","t">>, <<"S","w","i","f","t">>,
      <<"K","o","t","l","i","n">>, <<"R","e","a","c","t">>,
      <<"A","n","g","u","l","a","r">>, <<"V","u","e">>,
      <<"N","e","x","t",".","j","s">>, <<"N","o","d","e",".","j","s">>,
      <<"E","x","p","r","e","s","s">>, <<"D","j","a","n","g","o">>,
      <<"F","l","a","s","k">>,
      <<"S","p","r","i","n","g"," ","B","o","o","t">>, <<"H","T","M","L">>,
      <<"C","S","S">>, <<"S","A","S","S">>, <<"L","E","S","S">>,
      <<"T","a","i","l","w","i","n","d"," ","C","S","S">>,
      <<"B","o","o","t","s","t","r","a","p">>,
      <<"P","o","s","t","g","r","e","S","Q","L">>, <<"M","y","S","Q","L">>,
      <<"M","o","n","g","o","D","B">>, <<"R","e","d","i","s">>,
      <<"E","l","a","s","t","i","c","s","e","a","r","c","h">>,
      <<"D","y","n","a","m","o","D","B">>, <<"O","r","a","c","l","e">>,
      <<"S","Q","L"," ","S","e","r","v","e","r">>, <<"A","W","S">>,
      <<"A","z","u","r","e">>, <<"G","C","P">>, <<"D","o","c","k","e","r">>,
      <<"K","u","b","e","r","n","e","t","e","s">>,
      <<"J","e","n","k","i","n","s">>,
      <<"G","i","t","L","a","b"," ","C","I">>,
      <<"G","i","t","H","u","b"," ","A","c","t","i","o","n","s">>,
      <<"T","e","r","r","a","f","o","r","m">>,
      <<"A","n","s","i","b","l","e">>, <<"C","I","/","C","D">>,
      <<"G","i","t">>, <<"R","E","S","T"," ","A","P","I">>,
      <<"G","r","a","p","h","Q","L">>,
      <<"M","i","c","r","o","s","e","r","v","i","c","e","s">>,
      <<"A","g","i","l","e">>, <<"S","c","r","u","m">>, <<"J","I","R","A">>,
      <<"L","i","n","u","x">>,
      <<"M","a","c","h","i","n","e"," ","L","e","a","r","n","i","n","g">>,
      <<"T","e","n","s","o","r","F","l","o","w">>,
      <<"P","y","T","o","r","c","h">>, <<"A","I">>, <<"N","L","P">>,
      <<"D","a","t","a"," ","S","c","i","e","n","c","e">> >>

\* extractSkills: the skills of the matches of the section patterns, then
\* the common skills the lower-cased content includes; a Set keeps the first
\* occurrence of a string
extractSkills(content) ==
    Only({firstOccurrences(
            flatten([r \in 1..Len(skillsSections) |->
                flatten([m \in 1..Len(sections[r]) |->
                    extractSkillsFromText(sections[r][m])])])
            \o SelectSeq(commonSkills,
                         LAMBDA skill :
                             includes(lowerContent, toLowerCase(skill)))) :
          lowerContent \in {toLowerCase(content)},
          sections \in
            {[r \in 1..Len(skillsSections) |->
                matchedStrings(skillsSections[r], toLowerCase(content),
                               content)]}})

\* the three patterns of extractExperience, under the i flag
experienceRegex == <<
    Cat(<<Optional(Cat(<<Lit(<<"w","o","r","k">>), OneOrMore(Chr(SpaceChars))>>)),
          ExperienceWord, SectionBody,
          Ahead(Alt(<<ParagraphAhead, EducationWord,
                      ProjectsWord, SkillsWord,
                      InputEnd>>))>>),
    Cat(<<Lit(<<"p","r","o","f","e","s","s","i","o","n","a","l">>), OneOrMore(Chr(SpaceChars)),
          ExperienceWord, SectionBody,
          Ahead(Alt(<<ParagraphAhead, EducationWord, InputEnd>>))>>),
    Cat(<<Lit(<<"e","m","p","l","o","y","m","e","n","t">>), OneOrMore(Chr(SpaceChars)),
          Lit(<<"h","i","s","t","o","r","y">>), SectionBody,
          Ahead(Alt(<<ParagraphAhead, EducationWord, InputEnd>>))>>) >>

\* /\n(?=[A-Z][a-z]+.*(?:20\d{2}|19\d{2}))/
jobBreak ==
    Cat(<<Lit(<<"\n">>),
          Ahead(Cat(<<Chr(UpperSet), OneOrMore(Chr(LowerSet)), Star(Dot),
                      Alt(<<Cat(<<Lit(<<"2","0">>), Rep(Digit, 2, 2, TRUE)>>),
                            Cat(<<Lit(<<"1","9">>),
                                  Rep(Digit, 2, 2, TRUE)>>)>>)>>))>>)

\* the trimmed pieces of the first match of each pattern that are longer
\* than least characters
sectionEntries(patterns, content, Pieces(_), least) ==
    LET lowerContent == toLowerCase(content)
        IsEntry(entry) == Len(entry) > least
        EntriesOf(section) ==
            IF section = <<>> THEN <<>>
            ELSE Only({SelectSeq([k \in 1..Len(pieces) |-> trim(pieces[k])],
                                 IsEntry) :
                         pieces \in {Pieces(section)}})
    IN  flatten([r \in 1..Len(patterns) |->
            EntriesOf(firstMatch(patterns[r], lowerContent, content))])

extractExperience(content) ==
    sectionEntries(experienceRegex, content,
                   LAMBDA section : splitRegExp(jobBreak, section), 20)

\* the two patterns of extractEducation, under the i flag
educationRegex == <<
    Cat(<<EducationWord, SectionBody,
          Ahead(Alt(<<ParagraphAhead, ExperienceWord,
                      ProjectsWord, SkillsWord,
                      InputEnd>>))>>),
    Cat(<<Lit(<<"a","c","a","d","e","m","i","c">>), OneOrMore(Chr(SpaceChars)),
          Lit(<<"b","a","c","k","g","r","o","u","n","d">>), SectionBody,
          Ahead(Alt(<<ParagraphAhead, InputEnd>>))>>) >>

\* matches[0].split('\n').filter(line => line.trim().length > 10), trimmed
extractEducation(content) ==
    sectionEntries(educationRegex, content,
                   LAMBDA section : splitLines(section), 10)

\* the two patterns of extractProjects, under the i flag
projectsRegex == <<
    Cat(<<ProjectWord, Optional(Lit(<<"s">>)), SectionBody,
          Ahead(Alt(<<ParagraphAhead, ExperienceWord,
                      EducationWord, SkillsWord,
                      InputEnd>>))>>),
    Cat(<<Lit(<<"k","e","y">>), OneOrMore(Chr(SpaceChars)), ProjectWord,
          Optional(Lit(<<"s">>)), SectionBody,
          Ahead(Alt(<<ParagraphAhead, InputEnd>>))>>) >>

\* /\n(?=[A-Z(bullet)\-*])/
projectBreak ==
    Cat(<<Lit(<<"\n">>), Ahead(Chr(UpperSet \cup {Bullet, "-", "*"}))>>)

extractProjects(content) ==
    sectionEntries(projectsRegex, content,
                   LAMBDA section : splitRegExp(projectBreak, section), 20)

LetterOrDigit == LowerSet \cup UpperSet \cup Digits

\* /[a-zA-Z0-9._%+-]+@[a-zA-Z0-9.-]+\.[a-zA-Z]{2,}/
emailPattern ==
    Cat(<<OneOrMore(Chr(LetterOrDigit \cup {".", "_", "%", "+", "-"})),
          Lit(<<"@">>),
          OneOrMore(Chr(LetterOrDigit \cup {".", "-"})),
          Lit(<<".">>),
          Rep(Chr(LowerSet \cup UpperSet), 2, -1, TRUE)>>)

PhoneSeparator == Optional(Chr({"-", "."} \cup SpaceChars))

\* /(\+\d{1,3}[-.\s]?)?\(?\d{3}\)?[-.\s]?\d{3}[-.\s]?\d{4}/
phonePattern ==
    Cat(<<Optional(Cat(<<Lit(<<"+">>), Rep(Digit, 1, 3, TRUE),
                         PhoneSeparator>>)),
          Optional(Lit(<<"(">>)), Rep(Digit, 3, 3, TRUE),
          Optional(Lit(<<")">>)), PhoneSeparator, Rep(Digit, 3, 3, TRUE),
          PhoneSeparator, Rep(Digit, 4, 4, TRUE)>>)

\* /linkedin\.com\/in\/[\w-]+/i
linkedinPattern ==
    Cat(<<Lit(<<"l","i","n","k","e","d","i","n",".","c","o","m","/","i","n","/">>),
          OneOrMore(Chr(WordChars \cup {"-"}))>>)

\* /github\.com\/[\w-]+/i
githubPattern ==
    Cat(<<Lit(<<"g","i","t","h","u","b",".","c","o","m","/">>),
          OneOrMore(Chr(WordChars \cup {"-"}))>>)

\* extractContactInfo: a field that is not set is <<>> (a match of these
\* patterns is never empty)
extractContactInfo(content) ==
    [email |-> firstMatch(emailPattern, content, content),
     phone |-> firstMatch(phonePattern, content, content),
     linkedin |-> firstMatch(linkedinPattern, toLowerCase(content), content),
     github |-> firstMatch(githubPattern, toLowerCase(content), content)]

\* the ParsedResume both parsers build from the text of a resume
ParsedResume(content) ==
    [content |-> content,
     skills |-> extractSkills(content),
     experience |-> extractExperience(content),
     education |-> extractEducation(content),
     projects |-> extractProjects(content),
     contactInfo |-> extractContactInfo(content)]

\* parseTextResume(text)
parseTextResume(text) == ParsedResume(text)

\* the MIME types of the files
PdfType == "application/pdf"

DocxType ==
    "application/vnd.openxmlformats-officedocument.wordprocessingml.document"

DocType == "application/msword"

\* pdfParse(buffer) of pdf-parse: it resolves with the text of a buffer that
\* holds a readable PDF document and rejects on every other buffer
parsePDF(buf) ==
    IF buf.format = "pdf" /\ ~buf.damaged
    THEN [ok |-> TRUE, text |-> buf.text]
    ELSE [ok |-> FALSE]

\* mammoth.extractRawText({ buffer }): it resolves with the text of a buffer
\* that holds a readable DOCX archive and rejects on every other buffer
parseDOCX(buf) ==
    IF buf.format = "docx" /\ ~buf.damaged
    THEN [ok |-> TRUE, text |-> buf.text]
    ELSE [ok |-> FALSE]

NoBuffer == [format |-> "none"]

NoParsed == [content |-> <<>>]

\* no file is being parsed
NoUpload ==
    /\ fileType = "none"
    /\ buffer = NoBuffer
    /\ decoded = <<>>
    /\ parsed = NoParsed

\* the decoder parseResume calls for a file type, "none" for a type it
\* does not support
decoderOf(type) ==
    IF type = PdfType THEN "parsePDF"
    ELSE IF type = DocxType \/ type = DocType THEN "parseDOCX"
    ELSE "none"

\* the call parseResume(buffer, fileType): decoded lists the decoders it
\* calls; it returns a ParsedResume or throws
parseResume ==
    /\ pc = "upload"
    /\ \E decoder \in {decoderOf(fileType)} :
        IF decoder = "none"
        THEN /\ error' = "Failed to parse resume: Error: Unsupported file type"
             /\ pc' = "threw"
             /\ UNCHANGED <<decoded, parsed>>
        ELSE \E outcome \in {IF decoder = "parsePDF" THEN parsePDF(buffer)
                             ELSE parseDOCX(buffer)} :
                /\ decoded' = Append(decoded, decoder)
                /\ IF outcome.ok
                   THEN /\ parsed' = ParsedResume(outcome.text)
                        /\ pc' = "parsed"
                        /\ UNCHANGED error
                   ELSE /\ error' = "Failed to parse resume: decoder error"
                        /\ pc' = "threw"
                        /\ UNCHANGED parsed
    /\ UNCHANGED <<fileType, buffer, resume, jobDescription, skillsAnalysis,
                   experienceAnalysis, keywordAnalysis, formattingAnalysis,
                   result, skill1, skill2, matchResult, aiAnalysis, other,
                   moduleVars, routeVars, now, authVars, profile>>

(***************************************************************************)
(* extractKeywords and POST /api/ats/analyze                               *)
(* (src/app/api/ats/analyze/route.ts). A request runs from one await to    *)
(* the next in one step; the steps of different requests interleave.       *)
(***************************************************************************)
\* idf = 1 + ln(N / (1 + docsWithTerm)) of a term of the one document of
\* extractKeywords, in thousandths: 1 + ln(1/2)
IdfSingleDocument == 307

\* extractKeywords: the terms of more than three characters whose tfidf is
\* above 1, highest first, cut to thirty
extractKeywords(text) ==
    LET doc == buildDocument(toLowerCase(text))
        terms == termsOf(doc, <<>>)
        items == [i \in 1..Len(terms) |->
                    [term |-> terms[i],
                     score |-> tf(terms[i], doc) * IdfSingleDocument]]
        IsKeyword(item) == Len(item.term) > 3 /\ item.score > 1000
        keywords == SelectSeq(sortByTfidf(items, <<>>), IsKeyword)
    IN  slice0([k \in 1..Len(keywords) |-> keywords[k].term], 30)

\* parseInt(process.env.FREE_PLAN_SCANS_PER_MONTH || '5')
FreeScansLimit == 5

\* the requests that are served at the same time
MaxRequests == 2

RequestIds == 1..MaxRequests

NoUser ==
    [subscriptionPlan |-> "none", scansUsedThisMonth |-> 0,
     scansResetDate |-> 0]

\* null, the row of a query that finds none
NoRow == [content |-> <<>>, found |-> FALSE]

\* no row has been created
NoRecord == [id |-> "none"]

\* no request is being served
NoRequests ==
    /\ user = NoUser
    /\ atsScores = <<>>
    /\ requests = <<>>

\* a request that has arrived: resumeId and body are the resumeId and the
\* jobDescription of its body, "" a resumeId that is missing, stored is
\* the row of its user's resume with that id, and checkedAt records the
\* time at which the user row was read
Received(resumeId, body, stored) ==
    [pc |-> "json", resumeId |-> resumeId, body |-> body,
     stored |-> stored, user |-> NoUser,
     checkedAt |-> 0, jobDescRecord |-> NoRecord,
     atsScoreResult |-> NoResult,
     aiAnalysis |-> NoAIAnalysis, status |-> 0]

Responded(request, status) ==
    [request EXCEPT !.pc = "responded", !.status = status]

\* the row of a score that an earlier request of the month has stored
EarlierScore == [request |-> 0]

\* the data of prisma.aTSScore.create
ScoreRow(r, ats, ai) ==
    [request |-> r,
     overallScore |-> ats.overallScore,
     skillsScore |-> ats.skillsScore,
     experienceScore |-> ats.experienceScore,
     keywordScore |-> ats.keywordScore,
     formattingScore |-> ats.formattingScore,
     matchedSkills |-> ats.matchedSkills,
     missingSkills |-> ats.missingSkills,
     matchedKeywords |-> ats.matchedKeywords,
     missingKeywords |-> ats.missingKeywords,
     strengthsAnalysis |-> ai.strengths,
     weaknessesAnalysis |-> ai.weaknesses,
     suggestions |-> ats.suggestions \o ai.improvements]

\* resumeData, the fields of the stored resume that the engine is given
resumeDataOf(row) ==
    [content |-> row.content, skills |-> row.skills,
     experience |-> row.experience, education |-> row.education,
     projects |-> row.projects]

\* await request.json(), and the check of the fields of the body
readBody(r) ==
    /\ r \in DOMAIN requests
    /\ requests[r].pc = "json"
    /\ requests' = [requests EXCEPT ![r] =
            IF requests[r].resumeId = ""
            THEN Responded(@, 400)
            ELSE [@ EXCEPT !.pc = "findUser"]]
    /\ UNCHANGED <<user, atsScores, callVars, other, moduleVars, parserVars,
                   now, authVars, profile>>

\* await prisma.user.findUnique, and the check of the scan limit on the
\* row it resolves to
findUser(r) ==
    /\ r \in DOMAIN requests
    /\ requests[r].pc = "findUser"
    /\ requests' = [requests EXCEPT ![r] =
            IF /\ user.subscriptionPlan = "FREE"
               /\ user.scansUsedThisMonth >= FreeScansLimit
            THEN Responded([requests[r] EXCEPT !.user = user,
                                               !.checkedAt = now], 403)
            ELSE [requests[r] EXCEPT !.user = user, !.checkedAt = now,
                                     !.pc = "findResume"]]
    /\ UNCHANGED <<user, atsScores, callVars, other, moduleVars, parserVars,
                   now, authVars, profile>>

\* await prisma.resume.findFirst
findResume(r) ==
    /\ r \in DOMAIN requests
    /\ requests[r].pc = "findResume"
    /\ requests' = [requests EXCEPT ![r] =
            IF ~requests[r].stored.found
            THEN Responded(requests[r], 404)
            ELSE [requests[r] EXCEPT !.pc = "createJobDescription"]]
    /\ UNCHANGED <<user, atsScores, callVars, other, moduleVars, parserVars,
                   now, authVars, profile>>

\* await prisma.jobDescription.create with the keywords of the description,
\* then calculateATSScore and the call of analyzeResumeWithAI on the row it
\* resolves to; the catch block answers an exception with status 500
createJobDescription(r) ==
    /\ r \in DOMAIN requests
    /\ requests[r].pc = "createJobDescription"
    /\ \E jobData \in {[requests[r].body EXCEPT !.keywords =
                            extractKeywords(requests[r].body.description)]},
          resumeData \in {resumeDataOf(requests[r].stored)} :
        requests' = [requests EXCEPT ![r] =
            IF calculateKeywordScoreThrows(jobData)
            THEN Responded([requests[r] EXCEPT !.jobDescRecord = jobData], 500)
            ELSE Only({[requests[r] EXCEPT
                            !.jobDescRecord = jobData,
                            !.atsScoreResult = atsScoreResult,
                            !.aiAnalysis =
                                aiAnalysisOf(resumeData, atsScoreResult,
                                             sentiment, tokenizer),
                            !.pc = "createATSScore"] :
                       atsScoreResult \in {atsScoreOf(resumeData, jobData)}})]
    /\ UNCHANGED <<user, atsScores, callVars, other, moduleVars, parserVars,
                   now, authVars, profile>>

\* await prisma.aTSScore.create
createATSScore(r) ==
    /\ r \in DOMAIN requests
    /\ requests[r].pc = "createATSScore"
    /\ atsScores' = Append(atsScores,
                           ScoreRow(r, requests[r].atsScoreResult,
                                    requests[r].aiAnalysis))
    /\ requests' = [requests EXCEPT ![r].pc = "updateUser"]
    /\ UNCHANGED <<user, callVars, other, moduleVars, parserVars,
                   now, authVars, profile>>

\* an update that adds the increment twice
updateUser_IncrementTwice(r) ==
    /\ r \in DOMAIN requests
    /\ requests[r].pc = "updateUser"
    /\ user' = [user EXCEPT !.scansUsedThisMonth = @ + 2]
    /\ requests' = [requests EXCEPT ![r] = Responded(@, 200)]
    /\ UNCHANGED <<atsScores, callVars, other, moduleVars, parserVars,
                   now, authVars, profile>>

\* await prisma.user.update with scansUsedThisMonth: { increment: 1 }, an
\* increment the database makes on the row as it is then, and the response
updateUser(r) ==
    /\ r \in DOMAIN requests
    /\ requests[r].pc = "updateUser"
    /\ user' = [user EXCEPT !.scansUsedThisMonth = @ + 1]
    /\ requests' = [requests EXCEPT ![r] = Responded(@, 200)]
    /\ UNCHANGED <<atsScores, callVars, other, moduleVars, parserVars,
                   now, authVars, profile>>

(***************************************************************************)
(* The clock, GET /api/user/me (src/app/api/user/me/route.ts) and the      *)
(* refresh tokens of src/lib/auth.ts. Times are in seconds.                *)
(***************************************************************************)
\* the last second of the clock
MaxNow == 1

\* the clock moves on by a second
tick ==
    /\ now < MaxNow
    /\ now' = now + 1
    /\ UNCHANGED <<callVars, other, moduleVars, parserVars, routeVars,
                   authVars, profile>>

\* nextResetDate.setMonth(nextResetDate.getMonth() + 1), for a month of
\* thirty days
MonthSeconds == 2592000

\* no GET /api/user/me request
NoProfile ==
    [pc |-> "none", user |-> NoUser, nextResetDate |-> 0, status |-> 0]

\* a GET /api/user/me request that has arrived
ProfileRequested == [NoProfile EXCEPT !.pc = "findUnique"]

\* await prisma.user.findUnique, and the check of the reset date on the row
\* it resolves to
profileFindUser ==
    /\ profile.pc = "findUnique"
    /\ profile' =
          IF user = NoUser
          THEN [profile EXCEPT !.pc = "responded", !.status = 404]
          ELSE IF user.scansResetDate < now
          THEN [profile EXCEPT !.pc = "update", !.user = user,
                               !.nextResetDate = now + MonthSeconds]
          ELSE [profile EXCEPT !.pc = "responded", !.user = user,
                               !.status = 200]
    /\ UNCHANGED <<callVars, other, moduleVars, parserVars, routeVars, now,
                   authVars>>

\* await prisma.user.update with the counter at 0 and the next reset date,
\* the same on the row read, and the response
profileUpdate ==
    /\ profile.pc = "update"
    /\ user' = [user EXCEPT !.scansUsedThisMonth = 0,
                            !.scansResetDate = profile.nextResetDate]
    /\ profile' = [profile EXCEPT
                      !.pc = "responded",
                      !.user = [@ EXCEPT !.scansUsedThisMonth = 0,
                                         !.scansResetDate =
                                             profile.nextResetDate],
                      !.status = 200]
    /\ UNCHANGED <<atsScores, requests, callVars, other, moduleVars,
                   parserVars, now, authVars>>

\* JWT_REFRESH_EXPIRES_IN and the seven days of expiresAt
RefreshLifetime == 604800

UserIds == {"user-1"}

\* jwt.sign(payload, JWT_REFRESH_SECRET, { expiresIn }) at time t: the
\* token is the payload with iat and exp, signed with the same key every
\* time, so that equal payloads signed in the same second are the same string
generateRefreshToken(userId, t) ==
    [userId |-> userId, iat |-> t, exp |-> t + RefreshLifetime]

\* jwt.verify(token, JWT_REFRESH_SECRET) at time t does not throw
jwtVerifies(token, t) == t < token.exp

\* a refresh token of an earlier week, which jwt.verify rejects as expired
ExpiredToken == generateRefreshToken("user-1", 0 - RefreshLifetime)

\* the refresh tokens a client can present: those a login has returned, and
\* the expired one
HeldTokens == session.issued \cup {ExpiredToken}

\* prisma.refreshToken.findUnique({ where: { token } })
StoredTokens(token) == {row \in refreshTokens : row.token = token}

NoToken == [userId |-> "none", iat |-> 0, exp |-> 0]

\* no call of login, refresh or logout is in progress and none has been made
NoCalls ==
    [issued |-> {},
     login |-> [pc |-> "idle", token |-> NoToken, status |-> 0],
     refresh |-> [pc |-> "idle", token |-> NoToken, late |-> FALSE,
                  result |-> "none"],
     logout |-> [token |-> NoToken, unstored |-> FALSE, rows |-> {},
                 left |-> {}, raised |-> FALSE]]

\* the clock is at its start, no GET /api/user/me is in progress, and no
\* refresh token has been stored or revoked
NoSessions ==
    /\ now = 0
    /\ profile = NoProfile
    /\ refreshTokens = {}
    /\ revoked = {}
    /\ session = NoCalls

\* generateTokens up to its await: the refresh token of a login is signed
generateTokens(userId) ==
    /\ session.login.pc = "idle"
    /\ session' = [session EXCEPT !.login =
                      [pc |-> "create",
                       token |-> generateRefreshToken(userId, now),
                       status |-> 0]]
    /\ UNCHANGED <<refreshTokens, revoked, callVars, other, moduleVars,
                   parserVars, routeVars, now, profile>>

\* await prisma.refreshToken.create: the row is stored, unless a row with
\* the token exists, in which case the call rejects and the login route
\* answers 500; else the route returns the token to the client
createRefreshToken ==
    /\ session.login.pc = "create"
    /\ IF StoredTokens(session.login.token) # {}
       THEN /\ session' = [session EXCEPT !.login.pc = "idle",
                                          !.login.status = 500]
            /\ UNCHANGED refreshTokens
       ELSE /\ refreshTokens' = refreshTokens \cup
                    {[token |-> session.login.token,
                      userId |-> session.login.token.userId,
                      expiresAt |-> now + RefreshLifetime]}
            /\ session' = [session EXCEPT
                              !.issued = @ \cup {session.login.token},
                              !.login.pc = "idle",
                              !.login.status = 200]
    /\ UNCHANGED <<revoked, callVars, other, moduleVars, parserVars,
                   routeVars, now, profile>>

\* refreshAccessToken(token) up to the await of verifyRefreshToken:
\* jwt.verify; late records that logout had revoked the token when the call
\* was made
verifyRefreshToken(token) ==
    /\ session.refresh.pc = "idle"
    /\ session' = [session EXCEPT !.refresh =
                      IF jwtVerifies(token, now)
                      THEN [pc |-> "findUnique", token |-> token,
                            late |-> token \in revoked, result |-> "none"]
                      ELSE [pc |-> "idle", token |-> token,
                            late |-> token \in revoked, result |-> "null"]]
    /\ UNCHANGED <<refreshTokens, revoked, callVars, other, moduleVars,
                   parserVars, routeVars, now, profile>>

\* await prisma.refreshToken.findUnique and the rest of refreshAccessToken:
\* null without a row or with an expired one, else a new access token
findRefreshToken ==
    /\ session.refresh.pc = "findUnique"
    /\ session' = [session EXCEPT
                      !.refresh.pc = "idle",
                      !.refresh.result =
                          IF \/ StoredTokens(session.refresh.token) = {}
                             \/ \E row \in StoredTokens(session.refresh.token) :
                                    row.expiresAt < now
                          THEN "null"
                          ELSE "accessToken"]
    /\ UNCHANGED <<refreshTokens, revoked, callVars, other, moduleVars,
                   parserVars, routeVars, now, profile>>

\* revokeRefreshToken(token): prisma.refreshToken.delete removes the row of
\* the token, or rejects when no row has it, and the catch handler swallows
\* the rejection; unstored records that the delete was rejected, rows and
\* left the table before and after the call
revokeRefreshToken(token) ==
    /\ refreshTokens' = refreshTokens \ StoredTokens(token)
    /\ revoked' = revoked \cup {token}
    /\ session' = [session EXCEPT !.logout =
                      [token |-> token,
                       unstored |-> StoredTokens(token) = {},
                       rows |-> refreshTokens,
                       left |-> refreshTokens \ StoredTokens(token),
                       raised |-> FALSE]]
    /\ UNCHANGED <<callVars, other, moduleVars, parserVars, routeVars, now,
                   profile>>

(***************************************************************************)
(* Inputs: the strings the analysed resumes and job descriptions are made  *)
(* of                                                                      *)
(***************************************************************************)
sReact == <<"R","e","a","c","t">>

sReactjs == <<"R","e","a","c","t","j","s">>

sNodeJs == <<"N","o","d","e",".","j","s">>

sNodejs == <<"n","o","d","e","j","s">>

sDocker == <<"D","o","c","k","e","r">>

sAWS == <<"A","W","S">>

sTS == <<"T","S">>

sTypescript == <<"t","y","p","e","s","c","r","i","p","t">>

sJavaScript == <<"J","a","v","a","S","c","r","i","p","t">>

sJs == <<"j","s">>

sPostgres == <<"p","o","s","t","g","r","e","s">>

sPostgresql == <<"p","o","s","t","g","r","e","s","q","l">>

sPython == <<"P","y","t","h","o","n">>

sJava == <<"J","a","v","a">>

sC == <<"c">>

sCpp == <<"c","+","+">>

sReactSpaced == <<" ","r","e","a","c","t"," ">>

sReactDashed == <<"-","R","e","a","c","t","-">>

sKubernetes == <<"k","u","b","e","r","n","e","t","e","s">>

sKubernetis == <<"k","u","b","e","r","n","e","t","i","s">>

sAngular == <<"a","n","g","u","l","a","r">>

sAngulor == <<"a","n","g","u","l","o","r">>

sDjango == <<"d","j","a","n","g","o">>

sDjanga == <<"d","j","a","n","g","a">>

kReact == <<"r","e","a","c","t">>

kCloud == <<"C","l","o","u","d">>

kAgile == <<"a","g","i","l","e">>

tDeveloped ==
    <<"D","e","v","e","l","o","p","e","d"," ","R","e","a","c","t"," ","a",
      "p","p","s">>

tSenior == <<"S","e","n","i","o","r"," ","e","n","g","i","n","e","e","r">>

tManaged ==
    <<"M","a","n","a","g","e","d"," ","a","g","i","l","e"," ","t","e","a",
      "m">>

eAcme ==
    <<"L","e","d"," ","c","l","o","u","d"," ","m","i","g","r","a","t","i",
      "o","n"," ","a","t"," ","A","c","m","e"," ","2","0","2","1">>

eInitech ==
    <<"B","u","i","l","t"," ","R","e","a","c","t"," ","d","a","s","h","b",
      "o","a","r","d","s"," ","a","t"," ","I","n","i","t","e","c","h"," ",
      "2","0","1","9">>

edBSc ==
    <<"B","S","c"," ","C","o","m","p","u","t","e","r"," ","S","c","i","e",
      "n","c","e">>

dReact ==
    <<"R","e","a","c","t"," ","d","e","v","e","l","o","p","e","r"," ","f",
      "o","r"," ","c","l","o","u","d"," ","p","l","a","t","f","o","r","m">>

dCloud ==
    <<"c","l","o","u","d"," ","c","l","o","u","d"," ","e","n","g","i","n",
      "e","e","r"," ","w","i","t","h"," ","a","g","i","l","e"," ","d","e",
      "l","i","v","e","r","y">>

kAbsent == <<"s","c","a","l","a">>

kCpp == <<"C","+","+">>

kNodeJs == <<"N","o","d","e",".","j","s">>

kCSharp == <<"C","#">>

tTools ==
    <<"B","u","i","l","t"," ","C","+","+"," ","a","n","d"," ","N","o","d",
      "e",".","j","s"," ","t","o","o","l","s">>

tMetrics ==
    <<"L","e","d"," ","a"," ","t","e","a","m"," ","o","f"," ","5"," ","d","e",
      "v","e","l","o","p","e","r","s","."," ","I","n","c","r","e","a","s","e",
      "d"," ","s","a","l","e","s"," ","b","y"," ","2","5","%"," ","i","n"," ",
      "2","0","2","1","."," ","M","a","n","a","g","e","d"," ","3"," ","e","n",
      "g","i","n","e","e","r","s","."," ","I","m","p","r","o","v","e","d"," ",
      "u","p","t","i","m","e"," ","1","0","%"," ","g","r","o","w","t","h">>

tNegative ==
    <<"b","a","d"," ","t","e","r","r","i","b","l","e"," ","f","a","i","l","e",
      "d"," ","p","o","o","r"," ","s","e","r","v","i","c","e">>

tVerbose ==
    <<"I"," ","w","a","s"," ","t","a","s","k","e","d","."," ","I"," ","w","a",
      "s"," ","h","i","r","e","d","."," ","I"," ","w","a","s"," ","p","r","o",
      "m","o","t","e","d","."," ","M","y"," ","w","o","r","k"," ","w","a","s",
      " ","t","e","s","t","e","d","."," ","I","t"," ","w","a","s"," ","m","o",
      "v","e","d","."," ","M","e",":"," ","w","a","s"," ","c","a","l","l","e",
      "d","."," ","t","e","a","m"," ","p","l","a","y","e","r"," ","g","o","-",
      "g","e","t","t","e","r"," ","r","e","s","u","l","t","s","-","d","r","i",
      "v","e","n">>

eLed ==
    <<"-"," ","L","e","d"," ","a"," ","t","e","a","m"," ","o","f"," ","5"," ",
      "d","e","v","e","l","o","p","e","r","s">>

eIncreased ==
    <<"-"," ","I","n","c","r","e","a","s","e","d"," ","s","a","l","e","s"," ",
      "b","y"," ","2","5","%"," ","i","n"," ","2","0","2","1">>

eBuilt ==
    <<"-"," ","B","u","i","l","t"," ","R","e","a","c","t"," ","a","p","p","s",
      " ","f","o","r"," ","3"," ","c","l","i","e","n","t","s">>

\* the texts of uploaded files
uFull ==
    <<"J","a","n","e"," ","D","o","e"," ","j","a","n","e","@","a","c","m","e",
      ".","i","o","\n","S","k","i","l","l","s",":"," ","R","e","a","c","t",
      ","," ","N","o","d","e",".","j","s","\n","\n","E","x","p","e","r","i",
      "e","n","c","e",":"," ","B","u","i","l","t"," ","a","p","p","s"," ","a",
      "t"," ","A","c","m","e"," ","2","0","2","0","\n","\n","E","d","u","c",
      "a","t","i","o","n",":"," ","B","S","c"," ","C","o","m","p","u","t","e",
      "r"," ","S","c","i","e","n","c","e">>

uSections ==
    <<"S","k","i","l","l","s",":","\n","-"," ","G","o",";"," ","A","W","S",
      " ","|"," ","D","o","c","k","e","r","\n","P","r","o","j","e","c","t",
      "s",":"," ","S","i","t","e"," ","f","o","r"," ","s","h","o","p",","," ",
      "2","0","1","9","\n","K","e","y"," ","P","r","o","j","e","c","t","s",
      ":"," ","n","o","n","e","\n","+","1"," ","5","5","5","-","1","2","3",
      "-","4","5","6","7"," ","g","i","t","h","u","b",".","c","o","m","/","j",
      "d">>

uJobs ==
    <<"W","o","r","k"," ","E","x","p","e","r","i","e","n","c","e","\n","A",
      "c","m","e"," ","C","o","r","p"," ","2","0","1","9"," ","-"," ","2","0",
      "2","1"," ","s","e","n","i","o","r"," ","d","e","v","\n","I","n","i",
      "t","e","c","h"," ","L","t","d"," ","2","0","1","5"," ","j","u","n","i",
      "o","r">>

dPosted ==
    <<"R","e","a","c","t"," ","r","e","a","c","t"," ","r","e","a","c","t"," ",
      "r","e","a","c","t"," ","c","l","o","u","d"," ","c","l","o","u","d"," ",
      "c","l","o","u","d"," ","c","l","o","u","d"," ","c","l","o","u","d"," ",
      "d","e","v","e","l","o","p","e","r">>

sBulleted ==
    <<"-"," ","R","e","a","c","t">>

sSymbols ==
    <<"*","*","*">>

sTabbed ==
    <<"N","o","d","e","\t","J","S">>

sExclaimed ==
    <<"A","W","S"," ","!">>

tCSharp ==
    <<"C","#"," ","a","n","d"," ","R","e","a","c","t"," ","d","e","v","e","l",
      "o","p","e","r">>

eTightLed ==
    <<"-","L","e","d">>

eTightBuilt ==
    <<"-","B","u","i","l","t">>

eTightManaged ==
    <<"-","M","a","n","a","g","e","d">>

eDashX ==
    <<"-","x">>

eDashY ==
    <<"-","y">>

eDashZ ==
    <<"-","z">>

tAllFive ==
    <<"I"," ","w","a","s"," ","t","a","s","k","e","d","."," ","I"," ","w","a",
      "s"," ","h","i","r","e","d","."," ","I"," ","w","a","s"," ","p","r","o",
      "m","o","t","e","d","."," ","M","y"," ","w","o","r","k"," ","w","a","s",
      " ","t","e","s","t","e","d","."," ","I","t"," ","w","a","s"," ","m","o",
      "v","e","d","."," ","M","e",":"," ","w","a","s"," ","c","a","l","l","e",
      "d","."," ","t","e","a","m"," ","p","l","a","y","e","r"," ","g","o","-",
      "g","e","t","t","e","r"," ","r","e","s","u","l","t","s","-","d","r","i",
      "v","e","n"," ","b","a","d"," ","t","e","r","r","i","b","l","e"," ","b",
      "a","d"," ","t","e","r","r","i","b","l","e"," ","b","a","d"," ","t","e",
      "r","r","i","b","l","e"," ","b","a","d"," ","r","e","s","p","o","n","s",
      "i","b","i","l","i","t","i","e","s"," ","i","m","p","l","e","m","e","n",
      "t","a","t","i","o","n"," ","i","n","f","r","a","s","t","r","u","c","t",
      "u","r","e">>

tOneMetric ==
    <<"L","e","d"," ","5"," ","d","e","v","e","l","o","p","e","r","s">>

tTwoMetrics ==
    <<"L","e","d"," ","5"," ","d","e","v","e","l","o","p","e","r","s","."," ",
      "M","a","n","a","g","e","d"," ","3"," ","e","n","g","i","n","e","e","r",
      "s">>

tThreeMetrics ==
    <<"L","e","d"," ","5"," ","d","e","v","e","l","o","p","e","r","s","."," ",
      "M","a","n","a","g","e","d"," ","3"," ","e","n","g","i","n","e","e","r",
      "s","."," ","T","e","a","m"," ","o","f"," ","4"," ","p","e","o","p","l",
      "e">>

tRepeatedMetric ==
    <<"L","e","d"," ","5"," ","d","e","v","e","l","o","p","e","r","s","."," ",
      "l","e","d"," ","5"," ","d","e","v","e","l","o","p","e","r","s","."," ",
      "L","e","d"," ","5"," ","d","e","v","e","l","o","p","e","r","s">>

(***************************************************************************)
(* Bounds of the inputs                                                    *)
(***************************************************************************)
MaxResumeSkills == 2

MaxRequiredSkills == 2

MaxPreferredSkills == 1

MaxKeywords == 2

\* the keywords of a long list that occur nowhere in the resume
MaxAbsentKeywords == 6

\* the occurrences of a keyword a stuffed resume repeats
MaxOccurrences == 100

SeqsUpTo(S, n) == UNION {[1..k -> S] : k \in 0..n}

\* word n times, separated by single spaces
repeatWord(word, n) ==
    IF n = 0 THEN <<>>
    ELSE [i \in 1..(n * (Len(word) + 1) - 1) |->
            IF i % (Len(word) + 1) = 0 THEN " " ELSE word[i % (Len(word) + 1)]]

\* base followed by n occurrences of word, separated by spaces
stuffedContent(base, word, n) ==
    IF n = 0 THEN base
    ELSE IF base = <<>> THEN repeatWord(word, n)
    ELSE base \o <<" ">> \o repeatWord(word, n)

\* text filled with "." up to length n
padTo(text, n) ==
    IF Len(text) >= n THEN text
    ELSE text \o [i \in 1..(n - Len(text)) |-> "."]

Resumes(contents, skills, experiences, educations) ==
    [content : contents, skills : skills, experience : experiences,
     education : educations, projects : {<<>>}]

JobDescriptions(descriptions, required, preferred, keywords) ==
    [description : descriptions, requiredSkills : required,
     preferredSkills : preferred, keywords : keywords]

\* nothing has failed, no other analysis runs, the modules are loaded, and
\* no file is being parsed and no request is being served
Quiet ==
    /\ error = "none"
    /\ aiAnalysis = NoAIAnalysis
    /\ other = NoOther
    /\ ModulesLoaded
    /\ NoUpload
    /\ NoRequests
    /\ NoSessions

\* the state before calculateATSScore is called on one of the resumes and
\* one of the job descriptions
InitCall(resumes, jobs) ==
    /\ resume \in resumes
    /\ jobDescription \in jobs
    /\ skillsAnalysis = NoAnalysis
    /\ experienceAnalysis = NoAnalysis
    /\ keywordAnalysis = NoAnalysis
    /\ formattingAnalysis = NoAnalysis
    /\ result = NoResult
    /\ skill1 = NoSkill
    /\ skill2 = NoSkill
    /\ matchResult = FALSE
    /\ pc = "start"
    /\ Quiet

(***************************************************************************)
(* Spec: calculateATSScore on resumes and job descriptions that vary in    *)
(* every field                                                             *)
(***************************************************************************)
Contents ==
    { <<>>, tSenior, tDeveloped,
      padTo(stuffedContent(tManaged, kReact, 2), MinContentLength) }

Init ==
    InitCall(
        Resumes(Contents,
                { <<>>, <<sReact, sNodeJs, sDocker>> },
                { <<>>, <<eAcme, eInitech>> },
                { <<>>, <<edBSc>> }),
        JobDescriptions(
                { <<>>, dReact, dCloud },
                { <<>>, <<sReact, sAWS>>, <<sReact, sAWS, sDocker>> },
                { <<>>, <<sDocker, sTS, sReact>> },
                { <<>>, <<kReact>>, <<kReact, kCloud, kAgile>> }))

Next == calculateATSScore

Spec == Init /\ [][Next]_vars

(***************************************************************************)
(* SpecSkills: calculateATSScore on every combination of skill lists       *)
(***************************************************************************)
ResumeSkillPool == {sReact, sNodeJs}

RequiredSkillPool == {sReact, sAWS, sNodejs}

PreferredSkillPool == {sDocker, sReact}

InitSkills ==
    InitCall(
        Resumes({tDeveloped},
                SeqsUpTo(ResumeSkillPool, MaxResumeSkills),
                {<<eAcme>>}, {<<edBSc>>}),
        JobDescriptions({dReact},
                SeqsUpTo(RequiredSkillPool, MaxRequiredSkills),
                SeqsUpTo(PreferredSkillPool, MaxPreferredSkills),
                {<<kReact>>}))

SpecSkills == InitSkills /\ [][Next]_vars

(***************************************************************************)
(* SpecKeywords: calculateATSScore on keyword lists and on resumes that    *)
(* repeat a keyword                                                        *)
(***************************************************************************)
KeywordPool == {kReact, kAgile}

\* the word a stuffed resume repeats, in the capitalisation of the resume
StuffedKeywords == {sReact}

ContentBases == {<<>>, tManaged}

Occurrences == (0..5) \cup {MaxOccurrences}

\* the lists of at most MaxKeywords keywords, and the same followed by
\* MaxAbsentKeywords keywords that occur in no resume
KeywordLists ==
    LET short == SeqsUpTo(KeywordPool, MaxKeywords)
    IN  short \cup
        {ks \o [i \in 1..MaxAbsentKeywords |-> kAbsent] : ks \in short}

StuffedContents ==
    {stuffedContent(base, word, n) :
        base \in ContentBases, word \in StuffedKeywords, n \in Occurrences}

InitKeywords ==
    InitCall(
        Resumes(StuffedContents, {<<sReact>>}, {<<eAcme>>}, {<<edBSc>>}),
        JobDescriptions({dReact}, {<<sReact>>}, {<<>>}, KeywordLists))

SpecKeywords == InitKeywords /\ [][Next]_vars

(***************************************************************************)
(* SpecFormatting: calculateATSScore on resumes around each formatting     *)
(* check                                                                   *)
(***************************************************************************)
FormattingContents ==
    {padTo(base, n) :
        base \in {<<>>, tSenior, tDeveloped, tManaged},
        n \in {0, 200, MinContentLength - 1, MinContentLength,
               MinContentLength + 1}}

InitFormatting ==
    InitCall(
        Resumes(FormattingContents,
                { <<>>, <<sReact>> },
                { <<>>, <<eAcme>> },
                { <<>>, <<edBSc>> }),
        JobDescriptions({dReact}, {<<sReact>>}, {<<>>},
                        { <<>>, <<kReact>> }))

SpecFormatting == InitFormatting /\ [][Next]_vars

(***************************************************************************)
(* SpecMatch: skillsMatch on every pair of skill strings                   *)
(***************************************************************************)
SkillStrings ==
    { <<>>, sReact, sReactjs, sReactSpaced, sReactDashed, sNodeJs, sNodejs,
      sDocker, sAWS, sTS, sTypescript, sJavaScript, sJs, sPostgres,
      sPostgresql, sPython, sJava, sC, sCpp, sKubernetes, sKubernetis,
      sAngular, sAngulor, sDjango, sDjanga }

InitMatch ==
    /\ resume \in Resumes({<<>>}, {<<>>}, {<<>>}, {<<>>})
    /\ jobDescription \in JobDescriptions({<<>>}, {<<>>}, {<<>>}, {<<>>})
    /\ skillsAnalysis = NoAnalysis
    /\ experienceAnalysis = NoAnalysis
    /\ keywordAnalysis = NoAnalysis
    /\ formattingAnalysis = NoAnalysis
    /\ result = NoResult
    /\ skill1 \in SkillStrings
    /\ skill2 \in SkillStrings
    /\ matchResult = FALSE
    /\ pc = "start"
    /\ Quiet

\* a call of skillsMatch(skill1, skill2)
skillsMatchCall ==
    /\ pc = "start"
    /\ matchResult' = skillsMatch(skill1, skill2)
    /\ pc' = "done"
    /\ UNCHANGED <<resume, jobDescription, skillsAnalysis, experienceAnalysis,
                   keywordAnalysis, formattingAnalysis, result, skill1, skill2,
                   error, aiAnalysis, other, moduleVars, parserVars, routeVars,
                   now, authVars, profile>>

NextMatch == skillsMatchCall

SpecMatch == InitMatch /\ [][NextMatch]_vars

(***************************************************************************)
(* SpecPunctuation: calculateATSScore on keywords and skills that contain  *)
(* punctuation                                                             *)
(***************************************************************************)
PunctuatedKeywords == {kReact, kCpp, kNodeJs, kCSharp}

InitPunctuation ==
    InitCall(
        Resumes({ <<>>, tDeveloped, tTools, tCSharp },
                { <<>>, <<sReact>>, <<sCpp, sNodeJs>> },
                { <<>>, <<eAcme>> },
                { <<>>, <<edBSc>> }),
        JobDescriptions({dReact},
                { <<>>, <<sCpp>> },
                {<<>>},
                SeqsUpTo(PunctuatedKeywords, MaxKeywords)))

SpecPunctuation == InitPunctuation /\ [][Next]_vars

(***************************************************************************)
(* SpecNormalize: calculateATSScore on skills with characters that         *)
(* normalizeSkills strips and with white space in and around them          *)
(***************************************************************************)
StrippedSkillPool == {sReact, sBulleted, sSymbols, sTabbed, sReactSpaced}

StrippedRequiredPool == {sReact, sExclaimed, sSymbols}

InitNormalize ==
    InitCall(
        Resumes({tDeveloped},
                SeqsUpTo(StrippedSkillPool, 2),
                {<<eAcme>>},
                {<<edBSc>>}),
        JobDescriptions({dReact},
                SeqsUpTo(StrippedRequiredPool, 2),
                {<<>>},
                {<<kReact>>}))

SpecNormalize == InitNormalize /\ [][Next]_vars

(***************************************************************************)
(* SpecSuggestions: calculateATSScore on lists of required skills and of   *)
(* keywords longer than the five a suggestion names                        *)
(***************************************************************************)
SkillCatalog ==
    <<sReact, sAWS, sDocker, sPython, sKubernetes, sAngular, sDjango,
      sPostgres, sTypescript>>

KeywordCatalog ==
    <<kReact, kAgile, kCloud, kAbsent, sDocker, sPython, sKubernetes,
      sAngular, sDjango>>

\* the longest list of required skills and of keywords
MaxListed == 6

Prefixes(list, n) == {SubSeq(list, 1, k) : k \in 0..n}

InitSuggestions ==
    InitCall(
        Resumes({ tDeveloped, padTo(tManaged, MinContentLength) },
                { <<>>, <<sReact, sAWS>>, SkillCatalog },
                { <<>>, <<eAcme, eInitech>> },
                { <<edBSc>> }),
        JobDescriptions({dReact},
                Prefixes(SkillCatalog, MaxListed),
                { <<>>, <<sReact>> },
                Prefixes(KeywordCatalog, MaxListed)))

SpecSuggestions == InitSuggestions /\ [][Next]_vars

(***************************************************************************)
(* SpecAI: calculateATSScore and then analyzeResumeWithAI on its result,   *)
(* on resumes around each check of the language, bullet point and impact   *)
(* analyses                                                                *)
(***************************************************************************)
InitAI ==
    InitCall(
        Resumes({ <<>>, tMetrics, tNegative, tVerbose },
                { <<>>, <<sReact, sAWS>> },
                { <<>>, <<eLed>>, <<eLed, eIncreased, eBuilt>> },
                { <<edBSc>> }),
        JobDescriptions({dReact},
                { <<>>, SubSeq(SkillCatalog, 1, 4) },
                { <<>> },
                { <<>>, SubSeq(KeywordCatalog, 1, 4) }))

NextAI == calculateATSScore \/ analyzeResumeWithAI

SpecAI == InitAI /\ [][NextAI]_vars

(***************************************************************************)
(* SpecBullets: calculateATSScore and then analyzeResumeWithAI on          *)
(* experience entries around each check of analyzeBulletPoints             *)
(***************************************************************************)
\* a bullet line is too long above this length
LongBullet == 150

BulletExperiences ==
    { <<>>,
      <<eLed>>,
      <<eIncreased>>,
      <<eLed, eIncreased, eBuilt>>,
      <<eTightLed, eTightBuilt, padTo(eTightManaged, LongBullet + 1)>>,
      <<eDashX, eDashY, padTo(eDashZ, LongBullet + 1)>> }

InitBullets ==
    InitCall(
        Resumes({ <<>>, tSenior },
                { <<>>, <<sReact>> },
                BulletExperiences,
                { <<edBSc>> }),
        JobDescriptions({dReact},
                { <<>>, <<sReact, sAWS>> },
                { <<>> },
                { <<kReact>> }))

SpecBullets == InitBullets /\ [][NextAI]_vars

(***************************************************************************)
(* SpecLanguage: calculateATSScore and then analyzeResumeWithAI on         *)
(* contents that trigger none, some and all of the checks of               *)
(* analyzeLanguageQuality                                                  *)
(***************************************************************************)
InitLanguage ==
    InitCall(
        Resumes({ <<>>, tSenior, tNegative, tVerbose, tAllFive },
                { <<>>, <<sReact>> },
                { <<>>, <<eLed>> },
                { <<edBSc>> }),
        JobDescriptions({dReact},
                { <<>>, <<sReact, sAWS>> },
                { <<>> },
                { <<kReact>> }))

SpecLanguage == InitLanguage /\ [][NextAI]_vars

(***************************************************************************)
(* SpecImpact: calculateATSScore and then analyzeResumeWithAI on contents  *)
(* with no, one, two, three and five metric phrases and with a repeated    *)
(* one                                                                     *)
(***************************************************************************)
InitImpact ==
    InitCall(
        Resumes({ <<>>, tOneMetric, tTwoMetrics, tThreeMetrics,
                  tRepeatedMetric, tMetrics },
                { <<>>, <<sReact>> },
                { <<>>, <<eLed>> },
                { <<edBSc>> }),
        JobDescriptions({dReact},
                { <<>>, <<sReact, sAWS>> },
                { <<>> },
                { <<kReact>> }))

SpecImpact == InitImpact /\ [][NextAI]_vars

(***************************************************************************)
(* SpecInterleaved: the two calls of one analysis, interleaved in every    *)
(* order with the calls of two other analyses, on equal and on different   *)
(* inputs                                                                  *)
(***************************************************************************)
ResumeNegative ==
    [content |-> tNegative, skills |-> <<>>, experience |-> <<eLed>>,
     education |-> <<>>, projects |-> <<>>]

ResumeSenior ==
    [content |-> tSenior, skills |-> <<sReact>>, experience |-> <<>>,
     education |-> <<edBSc>>, projects |-> <<>>]

JobReact ==
    [description |-> dReact, requiredSkills |-> <<sReact, sAWS>>,
     preferredSkills |-> <<>>, keywords |-> <<kReact, kCloud>>]

JobCpp ==
    [description |-> dReact, requiredSkills |-> <<sReact>>,
     preferredSkills |-> <<>>, keywords |-> <<kCpp>>]

\* an analysis of another request that has not called yet
Pending(res, job) ==
    [pc |-> "start", resume |-> res, jobDescription |-> job,
     result |-> NoResult, aiAnalysis |-> NoAIAnalysis]

InitInterleaved ==
    /\ \/ resume = ResumeNegative /\ jobDescription = JobReact
       \/ resume = ResumeSenior /\ jobDescription = JobReact
       \/ resume = ResumeSenior /\ jobDescription = JobCpp
    /\ skillsAnalysis = NoAnalysis
    /\ experienceAnalysis = NoAnalysis
    /\ keywordAnalysis = NoAnalysis
    /\ formattingAnalysis = NoAnalysis
    /\ result = NoResult
    /\ skill1 = NoSkill
    /\ skill2 = NoSkill
    /\ matchResult = FALSE
    /\ pc = "start"
    /\ error = "none"
    /\ aiAnalysis = NoAIAnalysis
    /\ other \in [OtherAnalyses ->
                    {Pending(ResumeNegative, JobReact),
                     Pending(ResumeSenior, JobCpp)}]
    /\ ModulesLoaded
    /\ NoUpload
    /\ NoRequests
    /\ NoSessions

NextInterleaved ==
    \/ calculateATSScore
    \/ analyzeResumeWithAI
    \/ \E a \in OtherAnalyses : calculateATSScoreOf(a)
    \/ \E a \in OtherAnalyses : analyzeResumeWithAIOf(a)

SpecInterleaved == InitInterleaved /\ [][NextInterleaved]_vars

(***************************************************************************)
(* SpecParse: parseResume on files of every declared type, with contents   *)
(* of every format, readable and damaged                                   *)
(***************************************************************************)
FileTypes == {PdfType, DocxType, DocType, "text/plain", "image/png"}

\* the buffers of the files: what their bytes are, whether a decoder of
\* that format can read them, and the text they hold
Buffers ==
    [format : {"pdf", "docx", "doc", "png"}, damaged : BOOLEAN,
     text : {uFull, uSections, uJobs}]

InitParse ==
    /\ resume \in Resumes({<<>>}, {<<>>}, {<<>>}, {<<>>})
    /\ jobDescription \in JobDescriptions({<<>>}, {<<>>}, {<<>>}, {<<>>})
    /\ skillsAnalysis = NoAnalysis
    /\ experienceAnalysis = NoAnalysis
    /\ keywordAnalysis = NoAnalysis
    /\ formattingAnalysis = NoAnalysis
    /\ result = NoResult
    /\ skill1 = NoSkill
    /\ skill2 = NoSkill
    /\ matchResult = FALSE
    /\ pc = "upload"
    /\ error = "none"
    /\ aiAnalysis = NoAIAnalysis
    /\ other = NoOther
    /\ ModulesLoaded
    /\ fileType \in FileTypes
    /\ buffer \in Buffers
    /\ decoded = <<>>
    /\ parsed = NoParsed
    /\ NoRequests
    /\ NoSessions

NextParse == parseResume

SpecParse == InitParse /\ [][NextParse]_vars

(***************************************************************************)
(* SpecRoute: requests to POST /api/ats/analyze of one user, served at the *)
(* same time, with the user at and below the limit of the FREE plan        *)
(***************************************************************************)
StoredResume ==
    [content |-> tSenior, skills |-> <<sReact>>, experience |-> <<eLed>>,
     education |-> <<edBSc>>, projects |-> <<>>, found |-> TRUE]

\* the jobDescription of the body of a request
PostedJob ==
    [description |-> dPosted, requiredSkills |-> <<sReact, sAWS>>,
     preferredSkills |-> <<>>, keywords |-> <<>>]

InitRoute ==
    /\ resume \in Resumes({<<>>}, {<<>>}, {<<>>}, {<<>>})
    /\ jobDescription \in JobDescriptions({<<>>}, {<<>>}, {<<>>}, {<<>>})
    /\ skillsAnalysis = NoAnalysis
    /\ experienceAnalysis = NoAnalysis
    /\ keywordAnalysis = NoAnalysis
    /\ formattingAnalysis = NoAnalysis
    /\ result = NoResult
    /\ skill1 = NoSkill
    /\ skill2 = NoSkill
    /\ matchResult = FALSE
    /\ pc = "serving"
    /\ error = "none"
    /\ aiAnalysis = NoAIAnalysis
    /\ other = NoOther
    /\ ModulesLoaded
    /\ NoUpload
    /\ NoSessions
    /\ user \in [subscriptionPlan : {"FREE", "PRO"},
                 scansUsedThisMonth :
                    (FreeScansLimit - 1)..FreeScansLimit,
                 scansResetDate : {MonthSeconds}]
    /\ atsScores = [i \in 1..user.scansUsedThisMonth |-> EarlierScore]
    /\ requests \in [RequestIds ->
                        {Received("resume-1", PostedJob, StoredResume),
                         Received("resume-9", PostedJob, NoRow),
                         Received("", PostedJob, NoRow)}]

NextRoute ==
    \E r \in RequestIds :
        \/ readBody(r)
        \/ findUser(r)
        \/ findResume(r)
        \/ createJobDescription(r)
        \/ createATSScore(r)
        \/ updateUser(r)

SpecRoute == InitRoute /\ [][NextRoute]_vars

\* a FREE user at or one below the scan limit whose reset date has passed
\* once the clock moves or lies a month ahead, two POST /api/ats/analyze
\* requests for the stored resume, and possibly a GET /api/user/me request
InitQuota ==
    /\ resume \in Resumes({<<>>}, {<<>>}, {<<>>}, {<<>>})
    /\ jobDescription \in JobDescriptions({<<>>}, {<<>>}, {<<>>}, {<<>>})
    /\ skillsAnalysis = NoAnalysis
    /\ experienceAnalysis = NoAnalysis
    /\ keywordAnalysis = NoAnalysis
    /\ formattingAnalysis = NoAnalysis
    /\ result = NoResult
    /\ skill1 = NoSkill
    /\ skill2 = NoSkill
    /\ matchResult = FALSE
    /\ pc = "serving"
    /\ error = "none"
    /\ aiAnalysis = NoAIAnalysis
    /\ other = NoOther
    /\ ModulesLoaded
    /\ NoUpload
    /\ now = 0
    /\ refreshTokens = {}
    /\ revoked = {}
    /\ session = NoCalls
    /\ profile \in {NoProfile, ProfileRequested}
    /\ user \in [subscriptionPlan : {"FREE"},
                 scansUsedThisMonth :
                    (FreeScansLimit - 1)..FreeScansLimit,
                 scansResetDate : {0, MonthSeconds}]
    /\ atsScores = [i \in 1..user.scansUsedThisMonth |-> EarlierScore]
    /\ requests = [r \in RequestIds |->
                        Received("resume-1", PostedJob, StoredResume)]

NextQuota ==
    \/ NextRoute
    \/ tick
    \/ profileFindUser
    \/ profileUpdate

SpecQuota == InitQuota /\ [][NextQuota]_vars

\* nobody is logged in and no refresh token is stored
InitAuth ==
    /\ resume \in Resumes({<<>>}, {<<>>}, {<<>>}, {<<>>})
    /\ jobDescription \in JobDescriptions({<<>>}, {<<>>}, {<<>>}, {<<>>})
    /\ skillsAnalysis = NoAnalysis
    /\ experienceAnalysis = NoAnalysis
    /\ keywordAnalysis = NoAnalysis
    /\ formattingAnalysis = NoAnalysis
    /\ result = NoResult
    /\ skill1 = NoSkill
    /\ skill2 = NoSkill
    /\ matchResult = FALSE
    /\ pc = "serving"
    /\ error = "none"
    /\ aiAnalysis = NoAIAnalysis
    /\ other = NoOther
    /\ ModulesLoaded
    /\ NoUpload
    /\ NoRequests
    /\ NoSessions

NextAuth ==
    \/ tick
    \/ \E userId \in UserIds : generateTokens(userId)
    \/ createRefreshToken
    \/ \E token \in HeldTokens : verifyRefreshToken(token)
    \/ findRefreshToken
    \/ \E token \in HeldTokens : revokeRefreshToken(token)

SpecAuth == InitAuth /\ [][NextAuth]_vars

(***************************************************************************)
(* Properties of calculateATSScore                                         *)
(***************************************************************************)
Done == pc = "done"

\* C1: overallScore and each of skillsScore, experienceScore, keywordScore
\* and formattingScore of every result is a number in [0,100].
C1_ScoresInRange ==
    Done =>
        /\ InRange0to100(result.overallScore)
        /\ InRange0to100(result.skillsScore)
        /\ InRange0to100(result.experienceScore)
        /\ InRange0to100(result.keywordScore)
        /\ InRange0to100(result.formattingScore)

\* the weighted sum (40 s + 30 e + 20 k + 10 f) / 100 of four fractions as
\* one fraction [n, d], by integer arithmetic
SumOverHundred(sk, ex, kw, fm) ==
    [n |-> WeightSkills * sk.n * ex.d * kw.d * fm.d
           + WeightExperience * ex.n * sk.d * kw.d * fm.d
           + WeightKeywords * kw.n * sk.d * ex.d * fm.d
           + WeightFormatting * fm.n * sk.d * ex.d * kw.d,
     d |-> 100 * sk.d * ex.d * kw.d * fm.d]

\* o is q rounded to the nearest integer, halves upwards: o <= q + 1/2 < o + 1
IsRoundOf(o, q) ==
    /\ o.d = 1
    /\ 2 * o.n * q.d <= 2 * q.n + q.d
    /\ 2 * q.n + q.d < 2 * (o.n + 1) * q.d

AnyNaN(sk, ex, kw, fm) == IsNaN(sk) \/ IsNaN(ex) \/ IsNaN(kw) \/ IsNaN(fm)

\* C2: overallScore is the weighted sum 0.40 skills + 0.30 experience +
\* 0.20 keywords + 0.10 formatting of the unrounded component scores,
\* rounded once (NaN when a component is NaN).
C2_OverallFromUnrounded ==
    Done =>
        IF AnyNaN(skillsAnalysis.score, experienceAnalysis.score,
                  keywordAnalysis.score, formattingAnalysis.score)
        THEN IsNaN(result.overallScore)
        ELSE IsRoundOf(result.overallScore,
                       SumOverHundred(skillsAnalysis.score,
                                      experienceAnalysis.score,
                                      keywordAnalysis.score,
                                      formattingAnalysis.score))

\* a result whose overall score is not the rounded weighted sum of the
\* rounded component scores it returns
C2_Witness ==
    /\ Done
    /\ ~IsNaN(result.overallScore)
    /\ ~IsRoundOf(result.overallScore,
                  SumOverHundred(result.skillsScore, result.experienceScore,
                                 result.keywordScore, result.formattingScore))

\* the normalized forms of the three skill lists of the call
NormResume == normalizeSkills(resume.skills)

NormRequired == normalizeSkills(jobDescription.requiredSkills)

NormPreferred == normalizeSkills(jobDescription.preferredSkills)

\* some skill of the resume matches the job skill x
HasMatch(x) == \E i \in DOMAIN NormResume : skillsMatch(NormResume[i], x)

HasNoMatch(x) == ~HasMatch(x)

\* the number of entries of list equal to x
CountOf(list, x) == Cardinality({i \in DOMAIN list : list[i] = x})

\* sub is list with some entries left out, the others in their order
RECURSIVE IsSubsequence(_, _)
IsSubsequence(sub, list) ==
    IF sub = <<>> THEN TRUE
    ELSE IF list = <<>> THEN FALSE
    ELSE IF Head(sub) = Head(list) THEN IsSubsequence(Tail(sub), Tail(list))
    ELSE IsSubsequence(sub, Tail(list))

MatchedTail ==
    SubSeq(result.matchedSkills,
           Len(SelectSeq(NormRequired, HasMatch)) + 1,
           Len(result.matchedSkills))

C4_NoKeywordsScoreZero ==
    (Done /\ jobDescription.keywords = <<>>) =>
        /\ keywordAnalysis.score = Num(0)
        /\ keywordAnalysis.matched = <<>>
        /\ keywordAnalysis.missing = <<>>
        /\ result.keywordScore = Num(0)
        /\ ~IsNaN(result.overallScore)

\* the resume of the call with n occurrences of word behind base as content
StuffedResume(base, word, n) ==
    [resume EXCEPT !.content = stuffedContent(base, word, n)]

\* the content of the resume is base followed by n occurrences of word
IsStuffed(base, word, n) ==
    /\ Len(resume.content) =
          Len(base) + (IF n = 0 THEN 0 ELSE n * (Len(word) + 1) - 1)
                    + (IF n > 0 /\ base # <<>> THEN 1 ELSE 0)
    /\ resume.content = stuffedContent(base, word, n)

\* word is a keyword of the job description, whatever its capitalisation
IsKeyword(word) ==
    \E i \in DOMAIN jobDescription.keywords :
        toLowerCase(jobDescription.keywords[i]) = toLowerCase(word)

\* C5: a resume that repeats a keyword of the list n >= 3 times has the
\* keyword score of the resume that repeats it 3 times and is the same
\* otherwise, and the density credit of a keyword that occurs n times is
\* min(5 n, 15).
C5_KeywordSaturation ==
    Done =>
        \A base \in ContentBases, word \in StuffedKeywords, n \in Occurrences :
            IsStuffed(base, word, n) =>
                /\ densityLoop(toLowerCase(resume.content),
                               <<toLowerCase(word)>>, 1, 0)
                     = (IF 5 * n < 15 THEN 5 * n ELSE 15)
                /\ (n >= 3 /\ IsKeyword(word)) =>
                      keywordAnalysis.score =
                        calculateKeywordScore(StuffedResume(base, word, 3),
                                              jobDescription).score

\* a resume that repeats a keyword MaxOccurrences times, scored against a
\* list long enough for the keyword score to stay under its cap of 100
C5_Witness ==
    /\ Done
    /\ \E base \in ContentBases, word \in StuffedKeywords :
          /\ IsStuffed(base, word, MaxOccurrences)
          /\ IsKeyword(word)
    /\ Less(Num(0), keywordAnalysis.score)
    /\ Less(keywordAnalysis.score, Num(100))

\* the number of entries of list that a resume skill matches
MatchedIn(list) == Cardinality({i \in DOMAIN list : HasMatch(list[i])})

\* 80 * (matched required / required) + 20 * (matched preferred / preferred),
\* a term being 0 when its list is empty
SkillsFormula ==
    Plus(IF NormRequired = <<>> THEN Num(0)
         ELSE Frac(80 * MatchedIn(NormRequired), Len(NormRequired)),
         IF NormPreferred = <<>> THEN Num(0)
         ELSE Frac(20 * MatchedIn(NormPreferred), Len(NormPreferred)))

\* the resume and the job description of the example: skills React and
\* Node.js, required React and AWS, preferred Docker
IsSkillsExample ==
    /\ resume.skills = <<sReact, sNodeJs>>
    /\ jobDescription.requiredSkills = <<sReact, sAWS>>
    /\ jobDescription.preferredSkills = <<sDocker>>

\* C6: the skills score is min(100, 80 * (matched required skills / required
\* skills) + 20 * (matched preferred skills / preferred skills)), a term
\* counting as 0 when its list is empty; the example scores exactly 40.
C6_SkillsScore ==
    Done =>
        /\ skillsAnalysis.score =
              (IF Less(Num(100), SkillsFormula) THEN Num(100) ELSE SkillsFormula)
        /\ IsSkillsExample =>
              /\ skillsAnalysis.score = Num(40)
              /\ result.skillsScore = Num(40)

\* the example, scored
C6_Witness == Done /\ IsSkillsExample /\ skillsAnalysis.score = Num(40)

(***************************************************************************)
(* Properties of skillsMatch                                               *)
(***************************************************************************)
\* the arguments of the call as the rules see them
Lowered1 == trim(toLowerCase(skill1))

Lowered2 == trim(toLowerCase(skill2))

Called(a, b) == Done /\ skill1 = a /\ skill2 = b

\* C7: skillsMatch("JavaScript","js") is true by the synonym table,
\* skillsMatch("Reactjs","React") is true by the substring rule,
\* skillsMatch("postgres","postgresql") is true and
\* skillsMatch("Python","Java") is false.
C7_MatchExamples ==
    /\ Called(sJavaScript, sJs) =>
          /\ matchResult = TRUE
          /\ ~ExactRule(Lowered1, Lowered2)
          /\ ~ContainsRule(Lowered1, Lowered2)
          /\ VariationRule(Lowered1, Lowered2)
    /\ Called(sReactjs, sReact) =>
          /\ matchResult = TRUE
          /\ ContainsRule(Lowered1, Lowered2)
    /\ Called(sPostgres, sPostgresql) => matchResult = TRUE
    /\ Called(sPython, sJava) => matchResult = FALSE

\* skillsMatch("JavaScript","js") returned true
C7_Witness == Called(sJavaScript, sJs) /\ matchResult = TRUE

\* C8: a short skill is not matched against a longer one merely because it
\* is a substring of it: skillsMatch("c","c++") is false.
C8_ShortTokenNoSubstringMatch ==
    Called(sC, sCpp) => matchResult = FALSE

\* C9: skillsMatch(a,b) equals skillsMatch(b,a), and it is the disjunction
\* of the exact, substring, synonym and similarity rules.
C9_SymmetricDisjunction ==
    Done =>
        /\ matchResult = skillsMatch(skill2, skill1)
        /\ matchResult = (\/ SimilarityRule(Lowered1, Lowered2)
                          \/ VariationRule(Lowered1, Lowered2)
                          \/ ContainsRule(Lowered1, Lowered2)
                          \/ ExactRule(Lowered1, Lowered2))

\* two different skills matched by the similarity rule alone
C9_Witness ==
    /\ Done
    /\ matchResult = TRUE
    /\ ~ExactRule(Lowered1, Lowered2)
    /\ ~ContainsRule(Lowered1, Lowered2)
    /\ ~VariationRule(Lowered1, Lowered2)
    /\ SimilarityRule(Lowered1, Lowered2)

(***************************************************************************)
(* Properties of calculateFormattingScore                                  *)
(***************************************************************************)
TooShort == Len(resume.content) < MinContentLength

NoSkills == resume.skills = <<>>

NoExperience == resume.experience = <<>>

NoEducation == resume.education = <<>>

NoActionWord ==
    \A w \in DOMAIN actionWords :
        ~includes(toLowerCase(resume.content), actionWords[w])

PenaltySum ==
      (IF TooShort THEN 20 ELSE 0) + (IF NoSkills THEN 30 ELSE 0)
    + (IF NoExperience THEN 30 ELSE 0) + (IF NoEducation THEN 20 ELSE 0)
    + (IF NoActionWord THEN 10 ELSE 0)

ExpectedIssues ==
       (IF TooShort THEN <<"Resume content is too short">> ELSE <<>>)
    \o (IF NoSkills THEN <<"Missing skills section">> ELSE <<>>)
    \o (IF NoExperience THEN <<"Missing experience section">> ELSE <<>>)
    \o (IF NoEducation THEN <<"Missing education section">> ELSE <<>>)
    \o (IF NoActionWord THEN <<"Lacks strong action verbs">> ELSE <<>>)

AllFiveTriggered ==
    TooShort /\ NoSkills /\ NoExperience /\ NoEducation /\ NoActionWord

\* C10: the formatting score is max(0, 100 - the sum of the triggered
\* penalties 20, 30, 30, 20 and 10), issues holds one string per triggered
\* penalty in that order, and with all five triggered the score is 0 with
\* five issues.
C10_FormattingScore ==
    Done =>
        /\ formattingAnalysis.score =
              Num(IF PenaltySum > 100 THEN 0 ELSE 100 - PenaltySum)
        /\ formattingAnalysis.issues = ExpectedIssues
        /\ AllFiveTriggered =>
              /\ formattingAnalysis.score = Num(0)
              /\ Len(formattingAnalysis.issues) = 5

\* a resume of 200 characters without sections and action verbs, scored
C10_Witness ==
    /\ Done
    /\ Len(resume.content) = 200
    /\ AllFiveTriggered
    /\ formattingAnalysis.score = Num(0)
    /\ Len(formattingAnalysis.issues) = 5

(***************************************************************************)
(* Properties of the calls that fail                                       *)
(***************************************************************************)
Threw == pc = "threw"

\* C11: calculateATSScore never raises: whatever the resume and the job
\* description, keywords made of regular-expression metacharacters such as
\* "C++" included, the call returns a result and no error leaves it.
C11_ScoringNeverRaises == ~Threw

(***************************************************************************)
(* Properties of the suggestions of calculateATSScore                      *)
(***************************************************************************)
\* the group of a suggestion: skills, experience, keywords, formatting,
\* general
GroupOf(s) ==
    CASE s.text = SkillsText -> 1
      [] s.text = ExperienceText -> 2
      [] s.text = KeywordsText -> 3
      [] s.text = FormattingText -> 4
      [] s.text = GeneralText -> 5

InGroup(list, g) ==
    LET Is(s) == GroupOf(s) = g
    IN  SelectSeq(list, Is)

\* C18: the suggestions of calculateATSScore are ordered skills, experience,
\* keywords, formatting, general, and the formatting suggestions are one per
\* formatting issue in the order of the issues.
C18_SuggestionOrder ==
    Done =>
        /\ \A i, j \in DOMAIN result.suggestions :
                i < j => GroupOf(result.suggestions[i])
                            <= GroupOf(result.suggestions[j])
        /\ InGroup(result.suggestions, 4) =
                [i \in 1..Len(formattingAnalysis.issues) |->
                    Suggestion(FormattingText, <<formattingAnalysis.issues[i]>>)]

\* a result with a skills, an experience and a keywords suggestion and
\* several formatting suggestions
C18_Witness ==
    /\ Done
    /\ Len(InGroup(result.suggestions, 1)) = 1
    /\ Len(InGroup(result.suggestions, 2)) = 1
    /\ Len(InGroup(result.suggestions, 3)) = 1
    /\ Len(InGroup(result.suggestions, 4)) >= 2

\* the one skills suggestion that names the first five missing skills
NamesFirstMissing ==
    InGroup(result.suggestions, 1) =
        <<Suggestion(SkillsText, slice0(skillsAnalysis.missing, 5))>>

\* C19 as stated: there is exactly one skills suggestion, naming the first
\* (at most 5) missing required skills in order, whenever a required skill is
\* missing, and none when no required skill is missing.
C19_SkillsSuggestionWhenMissing ==
    Done =>
        IF Len(skillsAnalysis.missing) > 0
        THEN NamesFirstMissing
        ELSE InGroup(result.suggestions, 1) = <<>>

\* C19, amended: there is exactly one skills suggestion, naming the first (at
\* most 5) missing required skills in order, whenever the skills score is
\* below 70 and a required skill is missing, and none otherwise.
C19_SkillsSuggestionBelow70 ==
    Done =>
        IF Less(skillsAnalysis.score, Num(70)) /\ Len(skillsAnalysis.missing) > 0
        THEN NamesFirstMissing
        ELSE InGroup(result.suggestions, 1) = <<>>

\* more than five required skills are missing and the suggestion names five
C19_Witness ==
    /\ Done
    /\ Len(skillsAnalysis.missing) > 5
    /\ Len(InGroup(result.suggestions, 1)) = 1
    /\ Len(result.suggestions[1].items) = 5

GeneralPresent == InGroup(result.suggestions, 5) = <<Suggestion(GeneralText, <<>>)>>

GeneralAbsent == InGroup(result.suggestions, 5) = <<>>

\* C20 as stated: the general suggestion is present exactly when the skills
\* score and the keyword score are both strictly greater than 80.
C20_GeneralStrictlyAbove80 ==
    Done =>
        IF Less(Num(80), skillsAnalysis.score) /\ Less(Num(80), keywordAnalysis.score)
        THEN GeneralPresent
        ELSE GeneralAbsent

\* C20, amended: the general suggestion is present exactly when the skills
\* score and the keyword score are both at least 80.
C20_GeneralAtLeast80 ==
    Done =>
        IF /\ GreaterEq(skillsAnalysis.score, Num(80))
           /\ GreaterEq(keywordAnalysis.score, Num(80))
        THEN GeneralPresent
        ELSE GeneralAbsent

\* the skills score is exactly 80 and the general suggestion is present
C20_Witness ==
    /\ Done
    /\ skillsAnalysis.score = Num(80)
    /\ GeneralPresent

(***************************************************************************)
(* Properties of the lists of suggestions and of improvements              *)
(***************************************************************************)
\* the string of a suggestion: its fixed text, and the items joined by ", "
\* behind it. No fixed text that takes items begins another text.
Rendered(s) == <<s.text, joinWith(s.items, <<",", " ">>)>>

NoTwoAlike(list) ==
    \A i, j \in DOMAIN list :
        i # j => Rendered(list[i]) # Rendered(list[j])

Returned == pc \in {"done", "analyzed"}

Analyzed == pc = "analyzed"

\* C17: the suggestions calculateATSScore returns and the improvements
\* analyzeResumeWithAI returns are at most ten entries each, and no two
\* entries of a list are the same string.
C17_AtMostTenDistinct ==
    /\ Returned =>
            /\ Len(result.suggestions) <= 10
            /\ NoTwoAlike(result.suggestions)
    /\ Analyzed =>
            /\ Len(aiAnalysis.improvements) <= 10
            /\ NoTwoAlike(aiAnalysis.improvements)

\* every group of improvements is pushed, and six suggestions are returned
C17_Witness ==
    /\ Analyzed
    /\ Len(aiAnalysis.improvements) = 9
    /\ Len(result.suggestions) >= 6

(***************************************************************************)
(* Properties of the arguments of the two analyses                         *)
(***************************************************************************)
\* C14: a step of calculateATSScore or of analyzeResumeWithAI leaves
\* resume and jobDescription as they were, and a step of
\* analyzeResumeWithAI leaves every field of the atsScore it was given as
\* it was.
C14_ArgumentsUnchanged ==
    [][/\ resume' = resume
       /\ jobDescription' = jobDescription
       /\ (pc = "done" => result' = result)]_vars

\* analyzeResumeWithAI has returned on an atsScore with lists it slices
C14_Witness ==
    /\ Analyzed
    /\ Len(result.missingSkills) > 3
    /\ Len(result.missingKeywords) > 3
    /\ result.suggestions # <<>>
    /\ resume.experience # <<>>
(***************************************************************************)
(* Properties of analyses that run side by side                            *)
(***************************************************************************)
\* the analysis of the first request and the analyses of the others
AllAnalyses ==
    [a \in OtherAnalyses \cup {"first"} |->
        IF a = "first"
        THEN [pc |-> pc, resume |-> resume, jobDescription |-> jobDescription,
              result |-> result, aiAnalysis |-> aiAnalysis]
        ELSE other[a]]

HasScored(run) == run.pc \in {"done", "analyzed"}

HasThrown(run) == run.pc = "threw"

HasAnalyzed(run) == run.pc = "analyzed"

SameInputs(run1, run2) ==
    /\ run1.resume = run2.resume
    /\ run1.jobDescription = run2.jobDescription

ParseReturned == pc = "parsed"

ParseEnded == pc \in {"parsed", "threw"}

UnsupportedError == "Failed to parse resume: Error: Unsupported file type"

\* C12: parseResume returns a ParsedResume for the PDF and the DOCX type
\* only; for every other type it throws the unsupported-type error and has
\* called no decoder; and when it throws it has returned no ParsedResume.
C12_TwoTypesOnly ==
    /\ ParseReturned => fileType \in {PdfType, DocxType}
    /\ ParseEnded /\ fileType \notin {PdfType, DocxType} =>
            /\ Threw
            /\ error = UnsupportedError
            /\ decoded = <<>>
    /\ Threw => parsed = NoParsed
(***************************************************************************)
(* Properties of POST /api/ats/analyze                                     *)
(***************************************************************************)
\* C16: while the user is on the FREE plan, scansUsedThisMonth is at most
\* FREE_SCANS_LIMIT and at most FREE_SCANS_LIMIT scores of the month are
\* stored, also when requests of the user are served at the same time.
C16_FreeQuotaHeld ==
    user.subscriptionPlan = "FREE" =>
        /\ user.scansUsedThisMonth <= FreeScansLimit
        /\ Len(atsScores) <= FreeScansLimit

(***************************************************************************)
(* Properties of calculateKeywordScore                                     *)
(***************************************************************************)
\* the lower-cased keywords and content of the call
LoweredKeywords ==
    [i \in 1..Len(jobDescription.keywords) |->
        toLowerCase(jobDescription.keywords[i])]

LoweredContent == toLowerCase(resume.content)

\* matchRatio * 70 of the call
MatchRatioTerm ==
    Times(Frac(Len(keywordAnalysis.matched), Len(LoweredKeywords)), Num(70))

\* densityScore / keywords.length * 30 of the call
DensityTerm ==
    Times(Over(Num(densityLoop(LoweredContent, LoweredKeywords, 1, 0)),
               Num(Len(LoweredKeywords))),
          Num(30))

\* C22: with keywords given, the match-ratio term of the keyword score is at
\* most 70 points and the density term at most 30 points, and a resume that
\* lacks one of the keywords has a keyword score below 100.
C22_SeventyThirtySplit ==
    (Done /\ jobDescription.keywords # <<>>) =>
        /\ ~Less(Num(70), MatchRatioTerm)
        /\ ~Less(Num(30), DensityTerm)
        /\ keywordAnalysis.missing # <<>> =>
              Less(keywordAnalysis.score, Num(100))

(***************************************************************************)
(* Properties of normalizeSkills                                           *)
(***************************************************************************)
\* s is a string normalizeSkills is said to return: lower-case, trimmed and
\* made of letters, digits, the space character, "+", "#" and "."
IsNormalForm(s) ==
    /\ toLowerCase(s) = s
    /\ trim(s) = s
    /\ \A i \in DOMAIN s :
          IsLetter(s[i]) \/ s[i] \in Digits \/ s[i] \in {" ", "+", "#", "."}

\* C25: normalizeSkills maps every skill to a string that is lower-case,
\* trimmed and made only of letters, digits, the space character, "+", "#"
\* and "."; so are the skills a result lists as matched and as missing.
C25_NormalForm ==
    Done =>
        /\ \A i \in DOMAIN NormResume : IsNormalForm(NormResume[i])
        /\ \A i \in DOMAIN NormRequired : IsNormalForm(NormRequired[i])
        /\ \A i \in DOMAIN result.matchedSkills :
              IsNormalForm(result.matchedSkills[i])
        /\ \A i \in DOMAIN result.missingSkills :
              IsNormalForm(result.missingSkills[i])

\* C28: a required skill is listed in matchedSkills only if its normalized
\* form is not empty and a resume skill with a normalized form that is not
\* empty matches it.
C28_EmptyNeverMatches ==
    Done =>
        \A i \in DOMAIN NormRequired :
            arrayIncludes(result.matchedSkills, NormRequired[i]) =>
                /\ NormRequired[i] # <<>>
                /\ \E j \in DOMAIN NormResume :
                      /\ NormResume[j] # <<>>
                      /\ skillsMatch(NormResume[j], NormRequired[i])

\* keyword occurs in text as a whole word: as a substring with no letter,
\* digit or "_" right before it and right behind it
OccursAsWholeWord(text, keyword) ==
    \E p \in 0..(Len(text) - Len(keyword)) :
        /\ \A k \in 1..Len(keyword) : text[p + k] = keyword[k]
        /\ p = 0 \/ ~IsWordChar(text[p])
        /\ p + Len(keyword) = Len(text)
              \/ ~IsWordChar(text[p + Len(keyword) + 1])

\* C24: matched and missing of calculateKeywordScore partition the
\* lower-cased keywords: each keyword is in exactly one of the two lists, in
\* matched exactly when it occurs as a whole word in the resume content, and
\* both lists keep the order of the keywords.
C24_PartitionOfKeywords ==
    Done =>
        LET InMatched(k) == arrayIncludes(keywordAnalysis.matched, k)
            InMissing(k) == arrayIncludes(keywordAnalysis.missing, k)
        IN  /\ \A i \in DOMAIN LoweredKeywords :
                  /\ InMatched(LoweredKeywords[i]) # InMissing(LoweredKeywords[i])
                  /\ InMatched(LoweredKeywords[i])
                        <=> OccursAsWholeWord(LoweredContent, LoweredKeywords[i])
            /\ keywordAnalysis.matched = SelectSeq(LoweredKeywords, InMatched)
            /\ keywordAnalysis.missing = SelectSeq(LoweredKeywords, InMissing)

(***************************************************************************)
(* Properties of analyzeBulletPoints                                       *)
(***************************************************************************)
\* resume.experience.join('\n') of the call
JoinedExperience == joinWith(resume.experience, <<"\n">>)

\* the lines of the experience text that start, behind their white space,
\* with "-" or with a bullet
BulletLines ==
    LET IsBulletLine(l) ==
            startsWith(trim(l), "-") \/ startsWith(trim(l), Bullet)
    IN  SelectSeq(splitLines(JoinedExperience), IsBulletLine)

\* the matches of /^[\s]*[•\-*]\s+/gm in the experience text
BulletMarkers == matchAll(bulletPattern, JoinedExperience)

HasCue(pattern) == testRegExp(pattern, toLowerCase(JoinedExperience))

AnyTooLong == \E i \in DOMAIN BulletLines : Len(BulletLines[i]) > 150

MostTooShort ==
    LET Short(l) == Len(l) < 30
    IN  2 * Len(SelectSeq(BulletLines, Short)) > Len(BulletLines)

PenaltyIf(cond, penalty) == IF cond THEN penalty ELSE 0

\* the score and the length of the feedback for the penalties given
BulletQualityIs(fewBullets, noAction, noResult, noContext, penalties) ==
    LET sum == PenaltyIf(fewBullets, penalties[1])
                 + PenaltyIf(noAction, penalties[2])
                 + PenaltyIf(noResult, penalties[3])
                 + PenaltyIf(noContext, penalties[4])
                 + PenaltyIf(AnyTooLong, penalties[5])
                 + PenaltyIf(MostTooShort, penalties[6])
        count == PenaltyIf(fewBullets, 1) + PenaltyIf(noAction, 1)
                 + PenaltyIf(noResult, 1) + PenaltyIf(noContext, 1)
                 + PenaltyIf(AnyTooLong, 1) + PenaltyIf(MostTooShort, 1)
        quality == aiAnalysis.bulletPointQuality
    IN  /\ quality.score = Num(Max2(0, 100 - sum))
        /\ GreaterEq(quality.score, Num(0))
        /\ GreaterEq(Num(100), quality.score)
        /\ Len(quality.feedback) = count

\* C26 as stated: the bullet point score is max(0, 100 - penalties) with 30
\* for fewer than 3 bullet lines, 25 for no action cue, 10 for no result
\* cue, 25 for no context cue, 10 for a bullet line above 150 characters and
\* 10 for more than half of the bullet lines under 30 characters; it is in
\* [0,100] and feedback has one entry per penalty.
C26_PenaltiesAsStated ==
    Analyzed =>
        BulletQualityIs(Len(BulletLines) < 3, ~HasCue(actionPattern),
                        ~HasCue(resultPattern), ~HasCue(contextPattern),
                        <<30, 25, 10, 25, 10, 10>>)

\* C26, amended: the penalties are 30 for fewer than 3 bullet markers at the
\* start of a line (a "-", "*" or bullet followed by white space), 25 for no
\* action cue, 25 for no result cue and 10 for no context cue, then 10 and
\* 10 for the lengths of the lines that start with "-" or a bullet.
C26_Penalties ==
    Analyzed =>
        BulletQualityIs(Len(BulletMarkers) < 3, ~HasCue(actionPattern),
                        ~HasCue(resultPattern), ~HasCue(contextPattern),
                        <<30, 25, 25, 10, 10, 10>>)

\* an analysis of experience with a result cue and no context cue
C26_Witness ==
    /\ Analyzed
    /\ HasCue(resultPattern)
    /\ ~HasCue(contextPattern)
    /\ aiAnalysis.bulletPointQuality.score = Num(35)
    /\ Len(aiAnalysis.bulletPointQuality.feedback) = 3

(***************************************************************************)
(* Properties of analyzeLanguageQuality                                    *)
(***************************************************************************)
\* the penalty analyzeLanguageQuality takes with a feedback entry
LanguagePenalty(entry) ==
    CASE entry = Message("Reduce passive voice - use active voice for stronger impact") -> 15
      [] entry = Message("Minimize use of first-person pronouns (I, me, my)") -> 10
      [] entry = Message("Simplify complex terminology where possible for better readability") -> 10
      [] entry = Message("Replace cliches with specific examples and achievements") -> 15
      [] entry = Message("Overall tone appears negative - frame experiences more positively") -> 10
      [] OTHER -> 1000

RECURSIVE SumOfPenalties(_)
SumOfPenalties(feedback) ==
    IF feedback = <<>> THEN 0
    ELSE LanguagePenalty(Head(feedback)) + SumOfPenalties(Tail(feedback))

\* C29: the language score is in the range 40 to 100: it is 100 minus the
\* penalties of the feedback entries (15 passive voice, 10 first person, 10
\* complex words, 15 cliches, 10 negative tone), each entry is there once,
\* and their penalties sum to at most 60.
C29_LanguageScoreRange ==
    Analyzed =>
        LET quality == aiAnalysis.languageQuality
        IN  /\ GreaterEq(quality.score, Num(40))
            /\ GreaterEq(Num(100), quality.score)
            /\ NoTwoAlike(quality.feedback)
            /\ SumOfPenalties(quality.feedback) <= 60
            /\ quality.score = Num(100 - SumOfPenalties(quality.feedback))

\* an analysis that applies all five penalties
C29_Witness ==
    /\ Analyzed
    /\ Len(aiAnalysis.languageQuality.feedback) = 5
    /\ aiAnalysis.languageQuality.score = Num(40)

(***************************************************************************)
(* Properties of analyzeImpact                                             *)
(***************************************************************************)
\* the distinct metric phrases of the content: the trimmed matches of the
\* four patterns of extractMetrics
MetricPhrases ==
    UNION {{trim(m) : m \in Range(matchedStrings(metricPatterns[i],
                                                 toLowerCase(resume.content),
                                                 resume.content))} :
           i \in DOMAIN metricPatterns}

\* C27: examples holds each distinct metric phrase once,
\* hasQuantifiableResults is true exactly for two phrases or more, and
\* suggestions is empty exactly for three phrases or more; five distinct
\* phrases give true, five examples and no suggestions.
C27_ImpactAnalysis ==
    Analyzed =>
        LET impact == aiAnalysis.impactAnalysis
        IN  /\ \A i, j \in DOMAIN impact.examples :
                  i # j => impact.examples[i] # impact.examples[j]
            /\ Range(impact.examples) = MetricPhrases
            /\ impact.hasQuantifiableResults <=> Cardinality(MetricPhrases) >= 2
            /\ impact.suggestions # <<>> <=> Cardinality(MetricPhrases) < 3
            /\ Cardinality(MetricPhrases) = 5 =>
                  /\ impact.hasQuantifiableResults
                  /\ Len(impact.examples) = 5
                  /\ impact.suggestions = <<>>

\* the analysis of a content with five distinct metric phrases
C27_Witness ==
    /\ Analyzed
    /\ Cardinality(MetricPhrases) = 5
    /\ Len(aiAnalysis.impactAnalysis.examples) = 5

\* the rows of atsScores that request r has stored
ScoresOf(r) == {i \in DOMAIN atsScores : atsScores[i].request = r}

\* the requests that have been answered with a status
Answered(status) ==
    {r \in DOMAIN requests :
        requests[r].pc = "responded" /\ requests[r].status = status}

CheckedAfterReset ==
    {r \in DOMAIN requests :
        /\ requests[r].user # NoUser
        /\ requests[r].user.scansResetDate < requests[r].checkedAt}

\* C23: the quota of a FREE user is monthly: a POST /api/ats/analyze request
\* that checks the scan limit after scansResetDate has passed is not
\* rejected with 403, whether or not GET /api/user/me was called before,
\* and once it is answered with 200 the reset date has moved ahead.
C23_QuotaResetsOnAnalyze ==
    \A r \in CheckedAfterReset :
        /\ r \notin Answered(403)
        /\ r \in Answered(200) =>
              user.scansResetDate > requests[r].user.scansResetDate

\* C21: a refreshAccessToken call that is made with a refresh token after
\* logout has revoked it returns null, whatever logins, refreshes and
\* revocations have happened since the revocation, and the revocation of a
\* token that is not stored leaves the table as it is and raises no error.
C21_RevokedTokenRefused ==
    /\ session.refresh.late => session.refresh.result # "accessToken"
    /\ ~session.logout.raised
    /\ session.logout.unstored => session.logout.left = session.logout.rows

====
